---------------------------- MODULE Spec2Model ----------------------------
(***************************************************************************)
(* Model of the tile-map viewer's Renderer (app/src/main/cpp/Renderer.cpp) *)
(* : initialization with its map/image download outcomes, the touch        *)
(* gesture tracker of handleInput, the hit test checkTankSelection, the    *)
(* scene builder createColoredGrid and the per-frame render.               *)
(*                                                                         *)
(* Numbers.  Every C++ float is a fixed-point number counted in units of   *)
(* 1/Q (hundredths): 1.0f is 100, gridSpacing 0.4f is 40.  Sums and        *)
(* differences are exact.  An expression with products, quotients or a     *)
(* square root is evaluated exactly and rounded once, to the nearest unit, *)
(* where the code stores its value: the rounding of the float operations   *)
(* is far below a unit.  Pointer positions and surface sizes are whole     *)
(* pixels.                                                                 *)
(***************************************************************************)
EXTENDS Integers, Sequences, FiniteSets, TLC

-----------------------------------------------------------------------------
(* Bounds of the model *)

\* number of pointer events handled in one run
MaxEvents == 4

\* number of pointers that can be on the surface at once
MaxPointers == 2

\* largest grid side drawn for the placement / hit-test round trip
MaxDim == 4

\* the round trip is tried at scroll offsets of -MaxScroll..MaxScroll steps
\* on each axis
MaxScroll == 3

\* number of characters of a CSV text
MaxText == 5

\* number of row arrays in the data array of a JSON body
MaxRows == 2

-----------------------------------------------------------------------------
(* Fixed-point arithmetic standing for float *)

Q == 100

Abs(n) == IF n < 0 THEN -n ELSE n

Sign(n) == IF n < 0 THEN -1 ELSE 1

Max(a, b) == IF a > b THEN a ELSE b

\* n/d rounded to the nearest integer, halves away from zero (C round())
RoundDiv(n, d) == Sign(n) * Sign(d) * ((2 * Abs(n) + Abs(d)) \div (2 * Abs(d)))

RECURSIVE SqrtSearch(_, _)
\* the integer square root of n, by Newton's iteration from a guess x that
\* is not below it
SqrtSearch(n, x) ==
    IF x = 0 THEN 0
    ELSE LET y == (x + n \div x) \div 2
         IN  IF y >= x THEN x ELSE SqrtSearch(n, y)

\* the square root of n rounded to the nearest integer; guess is not below it
NearestSqrt(n, guess) ==
    LET r == SqrtSearch(n, guess)
    IN  IF n - r * r > r THEN r + 1 ELSE r

-----------------------------------------------------------------------------
(* Program constants *)

\* static constexpr float kProjectionHalfHeight = 2.f
kProjectionHalfHeight == 200

\* const float gridSpacing = 0.4f
gridSpacing == 40

\* cellSize = gridSpacing * 0.8f
cellSize == RoundDiv(gridSpacing * 8, 10)

\* highlightSize = cellSize * 1.1f
highlightSize == RoundDiv(gridSpacing * 8 * 11, 100)

\* z of the highlight vertices, 0.01f
highlightZ == 1

\* zoom range and default zoom of the view state
minZoom_ == 50

maxZoom_ == 300

defaultZoom == 100

\* size of the Index type: typedef uint16_t Index
IndexModulus == 65536


-----------------------------------------------------------------------------
(* NetworkDownloader::MapData: width, height and the row-major cell array  *)
(* (data[k + 1] is the C++ data[k]).                                       *)

MapData(w, h, cells) == [width |-> w, height |-> h, data |-> cells]

\* the default-constructed MapData member before any load
EmptyMapData == MapData(0, 0, <<>>)

\* mapData_.data[y * mapData_.width + x]
CellAt(m, x, y) == m.data[y * m.width + x + 1]

InBounds(m, gx, gy) == gx >= 0 /\ gx < m.width /\ gy >= 0 /\ gy < m.height

\* a variant that knows the lower-case letter only
IsTankLowerCaseOnly(c) == c = "x"

\* cellType == 'x' || cellType == 'X'
IsTank(c) == c = "x" \/ c = "X"

\* cellType == 'o' || cellType == 'O'
IsObject(c) == c = "o" \/ c = "O"

\* the grid written by createFallbackMapData
FallbackMapData ==
    MapData(10, 10,
        << "x", "x", " ", "x", " ", " ", " ", " ", " ", "x",
           " ", " ", "o", "o", " ", " ", "x", " ", " ", " ",
           " ", " ", " ", " ", " ", "x", " ", " ", " ", " ",
           " ", " ", " ", " ", " ", " ", " ", "x", " ", " ",
           " ", " ", " ", " ", " ", " ", " ", " ", " ", " ",
           " ", " ", " ", " ", " ", " ", " ", " ", "x", " ",
           " ", " ", " ", " ", " ", " ", " ", "x", " ", " ",
           " ", " ", " ", " ", " ", " ", " ", " ", " ", " ",
           " ", " ", " ", "x", " ", " ", " ", " ", " ", " ",
           " ", " ", " ", " ", "x", " ", " ", " ", " ", " " >>)

-----------------------------------------------------------------------------
(* NetworkDownloader parsers.  A text is a sequence of characters.         *)

\* the characters both parsers strip: " \t\r\n"
Whitespace == {" ", "\t", "\r", "\n"}

(* std::getline with delimiter sep, called until it fails: the pieces of   *)
(* text between delimiters; an empty text, and the empty piece after a     *)
(* final delimiter, give nothing.                                          *)
RECURSIVE SplitOn(_, _)
SplitOn(text, sep) ==
    IF text = <<>> THEN <<>>
    ELSE LET stops == { i \in 1..Len(text) : text[i] = sep }
             k     == IF stops = {} THEN Len(text) + 1
                      ELSE CHOOSE i \in stops : \A j \in stops : i <= j
         IN  << SubSeq(text, 1, k - 1) >> \o SplitOn(SubSeq(text, k + 1, Len(text)), sep)

\* cell.erase up to the first, and after the last, character not in Whitespace
Trim(cell) ==
    LET kept == { i \in 1..Len(cell) : cell[i] \notin Whitespace }
    IN  IF kept = {} THEN <<>>
        ELSE SubSeq(cell, CHOOSE i \in kept : \A j \in kept : i <= j,
                          CHOOSE i \in kept : \A j \in kept : i >= j)

\* the character a CSV cell stands for: cell[0] after trimming, ' ' if empty
CsvCellChar(cell) == IF Trim(cell) # <<>> THEN Trim(cell)[1] ELSE " "

\* the row parsed from one line
CsvRow(line) ==
    LET cells == SplitOn(line, ",")
    IN  [i \in 1..Len(cells) |-> CsvCellChar(cells[i])]

\* a variant that pads on the left
PadRowLeft(row, w) == [i \in 1..(w - Len(row)) |-> " "] \o row

\* while (row.size() < maxWidth) row.push_back(' ')
PadRow(row, w) == row \o [i \in 1..(w - Len(row)) |-> " "]

(* parseCSVData: empty lines are skipped, every other line gives a row,    *)
(* rows are padded to the longest one and copied row by row into data.     *)
(* It returns true for every text.                                         *)
parseCSVData(text) ==
    LET lines    == SelectSeq(SplitOn(text, "\n"), LAMBDA l : l # <<>>)
        grid     == SelectSeq([i \in 1..Len(lines) |-> CsvRow(lines[i])],
                              LAMBDA row : row # <<>>)
        maxWidth == IF grid = <<>> THEN 0
                    ELSE Len(grid[CHOOSE i \in 1..Len(grid) :
                                     \A j \in 1..Len(grid) : Len(grid[i]) >= Len(grid[j])])
        padded   == [i \in 1..Len(grid) |-> PadRow(grid[i], maxWidth)]
    IN  MapData(maxWidth, Len(grid),
                [k \in 1..(maxWidth * Len(grid)) |->
                    padded[((k - 1) \div maxWidth) + 1][((k - 1) % maxWidth) + 1]])

\* int width = 10, height = 10
defaultDimension == 10

\* a dimension of a JSON body: << >> when its key is absent, << n >> when
\* std::stoi reads n
JsonDimension(d) == IF d = <<>> THEN defaultDimension ELSE d[1]

\* the character a JSON string element stands for
JsonCellChar(element) == IF element # <<>> THEN element[1] ELSE " "

\* the value-initialized char that resize leaves in a cell never assigned
NulChar == "NUL"

(* parseJSONData for a body with a "data" key (hasData), the declared      *)
(* "rows" and "columns" and the row arrays of strings in data.  At most    *)
(* height row arrays are read, width elements from each, a missing element *)
(* reading as ' '.  data.resize(width * height) throws when the product is *)
(* negative (it converts to a huge size_t); the cells are then assigned in *)
(* loops that do not run when a dimension is not positive.                 *)
parseJSONData(body) ==
    LET width  == JsonDimension(body.columns)
        height == JsonDimension(body.rows)
        nRows  == IF height < Len(body.data) THEN height ELSE Len(body.data)
        grid   == [r \in 1..nRows |->
                     [c \in 1..width |->
                        IF c <= Len(body.data[r])
                        THEN JsonCellChar(body.data[r][c])
                        ELSE " "]]
    IN  IF ~body.hasData
        THEN [returned |-> FALSE, thrown |-> FALSE, mapData |-> EmptyMapData]
        ELSE IF width * height < 0
        THEN [returned |-> FALSE, thrown |-> TRUE, mapData |-> EmptyMapData]
        ELSE [returned |-> TRUE, thrown |-> FALSE,
              mapData |->
                MapData(width, height,
                  [k \in 1..(width * height) |->
                     IF width > 0 /\ height > 0
                     THEN LET y == ((k - 1) \div width) + 1
                              x == ((k - 1) % width) + 1
                          IN  IF y <= Len(grid) /\ x <= Len(grid[y])
                              THEN grid[y][x] ELSE " "
                     ELSE NulChar])]

-----------------------------------------------------------------------------
(* Cell geometry shared by createColoredGrid, checkTankSelection and       *)
(* createHighlightOverlay.                                                 *)

\* gridSize = std::max(mapData_.width, mapData_.height)
GridSize(m) == Max(m.width, m.height)

\* gridExtent = gridSize * gridSpacing * 0.5f
GridExtent(gridSize) == RoundDiv(gridSize * gridSpacing, 2)

\* cellX = -gridExtent + (x + 0.5f) * gridSpacing
CellCenterX(x, gridExtent) == -gridExtent + RoundDiv((2 * x + 1) * gridSpacing, 2)

\* cellY = gridExtent - (y + 0.5f) * gridSpacing
CellCenterY(y, gridExtent) == gridExtent - RoundDiv((2 * y + 1) * gridSpacing, 2)

\* the switch on cellType: the colour of a cell
CellColor(c) ==
    CASE c \in {"x", "X"} -> <<100, 0, 0>>
      [] c \in {"o", "O"} -> <<100, 50, 0>>
      [] c = "1"          -> <<0, 100, 0>>
      [] c = "2"          -> <<0, 0, 100>>
      [] c = "3"          -> <<100, 100, 0>>
      [] OTHER            -> <<20, 20, 20>>

\* a variant that outlines Tank cells as it outlines Empty ones
BatchOfTankOutlined(c) ==
    IF IsObject(c) THEN "triangle" ELSE "line"

\* a variant that fills Tank cells as it fills Objects
BatchOfTankFilled(c) ==
    IF IsTank(c) \/ IsObject(c) THEN "triangle" ELSE "line"

\* the if / else if / else that picks the batch a cell's quad goes to
BatchOf(c) ==
    IF IsTank(c) THEN "textured"
    ELSE IF IsObject(c) THEN "triangle"
    ELSE "line"

(* A quad is the four vertices one cell contributes, kept as the cell's    *)
(* centre, side, depth and colour; QuadVertices gives the four positions   *)
(* in the order they are emplaced, QuadIndices the indices pushed for the  *)
(* quad at place i (from 0) of its batch.                                  *)
Quad(cx, cy, size, z, color) ==
    [x |-> cx, y |-> cy, size |-> size, z |-> z, color |-> color]

QuadVertices(q) ==
    LET h == RoundDiv(q.size, 2)
    IN  << <<q.x - h, q.y + h, q.z>>, <<q.x + h, q.y + h, q.z>>,
           <<q.x + h, q.y - h, q.z>>, <<q.x - h, q.y - h, q.z>> >>

\* a variant that reads the vertex count after the quad's vertices are in
BaseIndexAfterQuad(i) == (4 * (i + 1)) % IndexModulus

\* Index baseIndex = vertices.size()
BaseIndex(i) == (4 * i) % IndexModulus

QuadIndices(kind, i) ==
    LET b == BaseIndex(i)
        n(k) == (b + k) % IndexModulus
    IN  IF kind = "line"
        THEN <<n(0), n(1), n(1), n(2), n(2), n(3), n(3), n(0)>>
        ELSE <<n(0), n(1), n(2), n(0), n(2), n(3)>>

\* the cells in the order the y/x loops visit them: <<x, y, cellType>>
CellsInOrder(m) ==
    IF m.width <= 0 \/ m.height <= 0 THEN <<>>
    ELSE [k \in 1..(m.width * m.height) |->
            << (k - 1) % m.width, (k - 1) \div m.width,
               CellAt(m, (k - 1) % m.width, (k - 1) \div m.width) >>]

\* the quads of the cells of one batch, in that order
BatchQuads(m, kind, gridExtent) ==
    LET OfKind(c) == BatchOf(c[3]) = kind
        cells == SelectSeq(CellsInOrder(m), OfKind)
    IN  [i \in 1..Len(cells) |->
            Quad(CellCenterX(cells[i][1], gridExtent),
                 CellCenterY(cells[i][2], gridExtent),
                 cellSize, 0, CellColor(cells[i][3]))]

\* a model list: empty when the batch has no vertex, else one model
ModelList(kind, quads) ==
    IF quads = <<>> THEN <<>> ELSE << [kind |-> kind, quads |-> quads] >>

(* createColoredGrid with map data loaded: the three batches rebuilt from  *)
(* the map; the highlight list is cleared.                                 *)
createColoredGrid(m) ==
    LET e == GridExtent(GridSize(m))
    IN  [models          |-> ModelList("line", BatchQuads(m, "line", e)),
         triangleModels  |-> ModelList("triangle", BatchQuads(m, "triangle", e)),
         texturedModels  |-> ModelList("textured", BatchQuads(m, "textured", e)),
         highlightModels |-> <<>>]

VertexCount(model) == 4 * Len(model.quads)

-----------------------------------------------------------------------------
(* The hit test of checkTankSelection, up to the rounded grid coordinates  *)

\* a variant without the half-cell term
HitGridXNoHalf(m, scrollX, worldX) ==
    RoundDiv((worldX - scrollX) + GridExtent(GridSize(m)), gridSpacing)

\* gridX = (adjustedWorldX + gridExtent) / gridSpacing - 0.5f; gx = (int)round(gridX)
HitGridX(m, scrollX, worldX) ==
    RoundDiv(2 * ((worldX - scrollX) + GridExtent(GridSize(m))) - gridSpacing,
             2 * gridSpacing)

\* gridY = (gridExtent - adjustedWorldY) / gridSpacing - 0.5f; gy = (int)round(gridY)
HitGridY(m, scrollY, worldY) ==
    RoundDiv(2 * (GridExtent(GridSize(m)) - (worldY - scrollY)) - gridSpacing,
             2 * gridSpacing)

\* a variant that builds no highlight
HighlightNone(m, gx, gy) == <<>>

\* a variant that puts the highlight quad on the world origin
HighlightAtOrigin(m, gx, gy) ==
    << [kind  |-> "line",
        quads |-> << Quad(0, 0, highlightSize, highlightZ, <<100, 0, 0>>) >>] >>

\* the highlight batch createHighlightOverlay builds for a selected cell
HighlightFor(m, gx, gy) ==
    LET e == GridExtent(GridSize(m))
    IN  << [kind  |-> "line",
            quads |-> << Quad(CellCenterX(gx, e), CellCenterY(gy, e),
                              highlightSize, highlightZ, <<100, 0, 0>>) >>] >>

-----------------------------------------------------------------------------
(* Inputs of the model *)

\* pointer positions in device pixels
ScreenPoints == { <<22, 2>>, <<38, 18>>, <<38, 28>> }

\* surface sizes eglQuerySurface can report (width, height)
Surfaces == { <<80, 40>> }

\* grids a successful downloadJSON can leave in mapData_
FetchedGrids ==
    { MapData(2, 2, << "x", "o", " ", " " >>),
      MapData(0, 0, <<>>) }

NoPointers == <<>>

-----------------------------------------------------------------------------
VARIABLES
    phase,            \* "constructed" before initRenderer has run, then "running"
    width_, height_,
    shaderNeedsNewProjectionMatrix_,
    projectionMatrix_,  \* the zoom and viewport the shaders' projection was built from
    models_, triangleModels_, texturedModels_, highlightModels_,
    mapData_, mapDataLoaded_, tankTextureLoaded_,
    glObjects,        \* the GL objects created and not yet handed to a glDelete call
    scrollX_, scrollY_, lastTouchX_, lastTouchY_, isScrolling_,
    zoomLevel_, touch1_, touch2_, isPinching_, lastPinchDistance_,
    selectedTankX_, selectedTankY_, hasTankSelected_,
    pointers,         \* the pointers on the surface, in event index order: [id, pos]
    owner1, owner2,   \* id of the pointer whose position an active touch1_ / touch2_
                      \* holds, 0 for an inactive slot
    nEvents,          \* pointer events handled so far
    lastEvent,        \* the last event handled (or the initialization) and its inputs
    drawn             \* the draw passes the latest frame issued, in order

viewVars == <<width_, height_, shaderNeedsNewProjectionMatrix_, projectionMatrix_>>

batchVars == <<models_, triangleModels_, texturedModels_>>

mapVars == <<mapData_, mapDataLoaded_, tankTextureLoaded_, glObjects>>

scrollVars == <<scrollX_, scrollY_>>

selectionVars == <<selectedTankX_, selectedTankY_, hasTankSelected_, highlightModels_>>

vars == <<phase, width_, height_, shaderNeedsNewProjectionMatrix_, projectionMatrix_,
          models_, triangleModels_, texturedModels_, highlightModels_,
          mapData_, mapDataLoaded_, tankTextureLoaded_, glObjects,
          scrollX_, scrollY_, lastTouchX_, lastTouchY_, isScrolling_,
          zoomLevel_, touch1_, touch2_, isPinching_, lastPinchDistance_,
          selectedTankX_, selectedTankY_, hasTankSelected_,
          pointers, owner1, owner2, nEvents, lastEvent, drawn>>

\* a variant that never marks a touch slot active
TouchNeverActive(x, y, active) == [x |-> x, y |-> y, active |-> FALSE]

\* a touch slot: a world position and whether a pointer holds it
Touch(x, y, active) == [x |-> x, y |-> y, active |-> active]

\* the last event was the lift of one of two pointers during a pinch (the
\* other lifts of a pointer leave isScrolling_ false)
AfterPinchLift ==
    /\ lastEvent.type = "pointer_up"
    /\ lastEvent.pointerCount = 2
    /\ isScrolling_
    /\ ~isPinching_

\* after such a lift, in the viewport the lift was handled in, a move event
\* listing ptrs reports the surviving pointer where the lift reported it
StillAfterPinchLift(ptrs) ==
    /\ AfterPinchLift
    /\ lastEvent.viewport = <<width_, height_>>
    /\ ptrs[1].pos = pointers[1].pos

\* the event follows a tap whose highlight request failed: it is the lift
\* that ends that tap, or the down that follows that lift
AfterFailedNotification(type) ==
    \/ /\ type \in {"up", "cancel"}
       /\ lastEvent.type = "down"
       /\ lastEvent.notified = "failed"
    \/ /\ type = "down"
       /\ lastEvent.type \in {"up", "cancel"}
       /\ lastEvent.afterFailed

\* a motion event: its action, pointerIndex and pointerCount, the viewport
\* its positions were converted with, and whether it is a move as above.
\* notified is the state of the highlight request when the handler returned
\* ("none" when it made no request); afterFailed is as defined above; pinch
\* is what the pinch branch of a move did with the zoom ("none" for every
\* other event); posted lists the payloads the handler passed to postJSON.
Event(type, index, count, still) ==
    [type |-> type, pointerIndex |-> index, pointerCount |-> count,
     viewport |-> <<width_, height_>>, still |-> still,
     notified |-> "none", afterFailed |-> AfterFailedNotification(type),
     pinch |-> "none", posted |-> <<>>]

\* the pointer ids in use
Ids(ptrs) == { ptrs[i].id : i \in 1..Len(ptrs) }

\* the id a new pointer gets: the lowest one not in use
NewId(ptrs) == CHOOSE n \in 1..(Len(ptrs) + 1) :
                  n \notin Ids(ptrs) /\ \A k \in 1..(n - 1) : k \in Ids(ptrs)

(* The Renderer as its constructor's initializer list leaves it, before    *)
(* the constructor body calls initRenderer.                                *)
Init ==
    /\ phase = "constructed"
    /\ width_ = 0
    /\ height_ = 0
    /\ shaderNeedsNewProjectionMatrix_ = TRUE
    /\ projectionMatrix_ = [zoom |-> 0, width |-> 0, height |-> 0]
    /\ models_ = <<>>
    /\ triangleModels_ = <<>>
    /\ texturedModels_ = <<>>
    /\ highlightModels_ = <<>>
    /\ mapData_ = EmptyMapData
    /\ mapDataLoaded_ = FALSE
    /\ tankTextureLoaded_ = FALSE
    /\ glObjects = {}
    /\ scrollX_ = 0
    /\ scrollY_ = 0
    /\ lastTouchX_ = 0
    /\ lastTouchY_ = 0
    /\ isScrolling_ = FALSE
    /\ zoomLevel_ = defaultZoom
    /\ touch1_ = Touch(0, 0, FALSE)
    /\ touch2_ = Touch(0, 0, FALSE)
    /\ isPinching_ = FALSE
    /\ lastPinchDistance_ = 0
    /\ selectedTankX_ = -1
    /\ selectedTankY_ = -1
    /\ hasTankSelected_ = FALSE
    /\ pointers = NoPointers
    /\ owner1 = 0
    /\ owner2 = 0
    /\ nEvents = 0
    /\ lastEvent = [type |-> "none"]
    /\ drawn = <<>>

-----------------------------------------------------------------------------
(* Initialization *)

\* a variant that falls back only when the grid download fails
downloadMapDataGridOnly(gridOk, grid, imageOk, decodeOk) ==
    IF gridOk
    THEN [mapData |-> grid, mapDataLoaded |-> TRUE,
          tankTextureLoaded |-> imageOk /\ decodeOk,
          batches |-> createColoredGrid(grid)]
    ELSE [mapData |-> FallbackMapData, mapDataLoaded |-> TRUE,
          tankTextureLoaded |-> FALSE,
          batches |-> createColoredGrid(FallbackMapData)]

\* a variant whose fallback grid comes with a loaded tank texture
downloadMapDataTexturedFallback(gridOk, grid, imageOk, decodeOk) ==
    IF gridOk /\ imageOk
    THEN [mapData |-> grid, mapDataLoaded |-> TRUE,
          tankTextureLoaded |-> decodeOk,
          batches |-> createColoredGrid(grid)]
    ELSE [mapData |-> FallbackMapData, mapDataLoaded |-> TRUE,
          tankTextureLoaded |-> TRUE,
          batches |-> createColoredGrid(FallbackMapData)]

(* downloadMapData: the map and batches it leaves for the outcomes of      *)
(* downloadJSON (gridOk, and the grid it parsed), downloadImage (imageOk)  *)
(* and decodePNGToTexture (decodeOk).  Both failure branches call          *)
(* createFallbackMapData.                                                  *)
downloadMapData(gridOk, grid, imageOk, decodeOk) ==
    IF gridOk /\ imageOk
    THEN [mapData |-> grid, mapDataLoaded |-> TRUE,
          tankTextureLoaded |-> decodeOk,
          batches |-> createColoredGrid(grid)]
    ELSE [mapData |-> FallbackMapData, mapDataLoaded |-> TRUE,
          tankTextureLoaded |-> FALSE,
          batches |-> createColoredGrid(FallbackMapData)]

\* the GL objects initRenderer leaves behind: the texture shader's program, and
\* the tank texture once decodePNGToTexture has generated it
GlObjectsAfterInit(tankTextureLoaded) ==
    {"textureShader_"} \cup (IF tankTextureLoaded THEN {"tankTextureId_"} ELSE {})

(* initRenderer, called by the constructor: the viewport is made invalid,  *)
(* the texture state reset, createModels builds the plain grid and         *)
(* downloadMapData, which runs to its end inside the call, replaces it.    *)
InitRenderer ==
    /\ phase = "constructed"
    /\ \E gridOk \in BOOLEAN, grid \in FetchedGrids,
          imageOk \in BOOLEAN, decodeOk \in BOOLEAN :
         \* an outcome that is not reached is recorded as FALSE
         /\ (~gridOk => ~imageOk /\ grid = EmptyMapData)
         /\ (~imageOk => ~decodeOk)
         /\ LET r == downloadMapData(gridOk, grid, imageOk, decodeOk)
            IN  /\ mapData_' = r.mapData
                /\ mapDataLoaded_' = r.mapDataLoaded
                /\ tankTextureLoaded_' = r.tankTextureLoaded
                /\ glObjects' = GlObjectsAfterInit(r.tankTextureLoaded)
                /\ models_' = r.batches.models
                /\ triangleModels_' = r.batches.triangleModels
                /\ texturedModels_' = r.batches.texturedModels
                /\ highlightModels_' = r.batches.highlightModels
         /\ lastEvent' = [type |-> "init", gridOk |-> gridOk, grid |-> grid,
                          imageOk |-> imageOk, decodeOk |-> decodeOk]
    /\ phase' = "running"
    /\ width_' = -1
    /\ height_' = -1
    /\ UNCHANGED <<drawn, shaderNeedsNewProjectionMatrix_, projectionMatrix_,
                   scrollX_, scrollY_, lastTouchX_, lastTouchY_, isScrolling_,
                   zoomLevel_, touch1_, touch2_, isPinching_, lastPinchDistance_,
                   selectedTankX_, selectedTankY_, hasTankSelected_,
                   pointers, owner1, owner2, nEvents>>

-----------------------------------------------------------------------------
(* One frame *)

\* a variant that issues the textured pass whenever its batch is not empty
RenderPassesIgnoringTexture(lines, triangles, textured, textureLoaded, highlight) ==
    (IF lines # <<>> THEN << "line" >> ELSE <<>>)
        \o (IF triangles # <<>> THEN << "triangle" >> ELSE <<>>)
        \o (IF textured # <<>> THEN << "textured" >> ELSE <<>>)
        \o (IF highlight # <<>> THEN << "highlight" >> ELSE <<>>)

\* a variant that draws the highlight overlay first
RenderPassesHighlightFirst(lines, triangles, textured, textureLoaded, highlight) ==
    (IF highlight # <<>> THEN << "highlight" >> ELSE <<>>)
        \o (IF lines # <<>> THEN << "line" >> ELSE <<>>)
        \o (IF triangles # <<>> THEN << "triangle" >> ELSE <<>>)
        \o (IF textured # <<>> /\ textureLoaded THEN << "textured" >> ELSE <<>>)

(* The draw passes of render, in the order of its four if statements: the  *)
(* line shader draws models_, the triangle shader triangleModels_, the     *)
(* texture shader texturedModels_ once the tank texture is loaded, and the *)
(* line shader draws highlightModels_ last.                                *)
RenderPasses(lines, triangles, textured, textureLoaded, highlight) ==
    (IF lines # <<>> THEN << "line" >> ELSE <<>>)
        \o (IF triangles # <<>> THEN << "triangle" >> ELSE <<>>)
        \o (IF textured # <<>> /\ textureLoaded THEN << "textured" >> ELSE <<>>)
        \o (IF highlight # <<>> THEN << "highlight" >> ELSE <<>>)

\* a variant that builds the projection for the default zoom
updateProjectionMatrixIgnoringZoom(zoom, width, height) ==
    [zoom |-> defaultZoom, width |-> width, height |-> height]

\* updateProjectionMatrixWithZoom: the orthographic projection, given by
\* the zoom (half height kProjectionHalfHeight / zoom) and the viewport
\* (aspect width / height) it is built from
updateProjectionMatrixWithZoom(zoom, width, height) ==
    [zoom |-> zoom, width |-> width, height |-> height]

(* render: updateRenderArea reads the surface size and marks the           *)
(* projection dirty when it changed; a dirty projection is rebuilt from    *)
(* the current zoom and viewport and the flag cleared; then the passes are *)
(* drawn.                                                                  *)
RenderOn(surfaces) ==
    /\ phase = "running"
    /\ \E s \in surfaces :
         LET resized == s[1] # width_ \/ s[2] # height_
             dirty   == shaderNeedsNewProjectionMatrix_ \/ resized
         IN  /\ width_' = s[1]
             /\ height_' = s[2]
             /\ projectionMatrix_' =
                    IF dirty
                    THEN updateProjectionMatrixWithZoom(zoomLevel_, s[1], s[2])
                    ELSE projectionMatrix_
    /\ shaderNeedsNewProjectionMatrix_' = FALSE
    /\ drawn' = RenderPasses(models_, triangleModels_, texturedModels_,
                             tankTextureLoaded_, highlightModels_)
    /\ UNCHANGED <<phase, batchVars, mapVars, scrollVars, selectionVars,
                   lastTouchX_, lastTouchY_, isScrolling_,
                   zoomLevel_, touch1_, touch2_, isPinching_, lastPinchDistance_,
                   pointers, owner1, owner2, nEvents, lastEvent>>

\* one call of render
Render == RenderOn(Surfaces)

-----------------------------------------------------------------------------
(* handleInput, one motion event at a time *)

(* convertScreenToWorld for a pixel position p: the world point under it   *)
(* for the current viewport and zoom.                                      *)
(*   aspect           = width_ / height_                                    *)
(*   zoomedHalfHeight = kProjectionHalfHeight / zoomLevel_                 *)
(*   zoomedHalfWidth  = zoomedHalfHeight * aspect                          *)
(*   worldX =   ((screenX / width_)  * 2 - 1) * zoomedHalfWidth            *)
(*   worldY = -(((screenY / height_) * 2 - 1) * zoomedHalfHeight)          *)
convertScreenToWorld(p) ==
    << RoundDiv((2 * p[1] - width_) * kProjectionHalfHeight * width_ * Q,
                width_ * zoomLevel_ * height_),
       -RoundDiv((2 * p[2] - height_) * kProjectionHalfHeight * Q,
                 height_ * zoomLevel_) >>

\* a variant that adds the two coordinate differences
calculateDistanceManhattan(x1, y1, x2, y2) == Abs(x2 - x1) + Abs(y2 - y1)

\* calculateDistance
calculateDistance(x1, y1, x2, y2) ==
    LET dx == x2 - x1
        dy == y2 - y1
    IN  NearestSqrt(dx * dx + dy * dy, Abs(dx) + Abs(dy))

\* a variant that treats every position as a miss
checkTankSelectionAlwaysMisses(worldX, worldY) ==
    [hasTankSelected |-> FALSE, selectedTankX |-> selectedTankX_,
     selectedTankY |-> selectedTankY_, highlightModels |-> <<>>, hit |-> FALSE]

\* a variant that selects whatever cell of the grid is hit
checkTankSelectionAnyCell(worldX, worldY) ==
    LET gx == HitGridX(mapData_, scrollX_, worldX)
        gy == HitGridY(mapData_, scrollY_, worldY)
        keep == [hasTankSelected |-> hasTankSelected_,
                 selectedTankX |-> selectedTankX_,
                 selectedTankY |-> selectedTankY_,
                 highlightModels |-> highlightModels_, hit |-> FALSE]
    IN  IF InBounds(mapData_, gx, gy)
        THEN [hasTankSelected |-> TRUE, selectedTankX |-> gx, selectedTankY |-> gy,
              highlightModels |-> HighlightFor(mapData_, gx, gy), hit |-> TRUE]
        ELSE [keep EXCEPT !.hasTankSelected = FALSE, !.highlightModels = <<>>]

\* a variant that leaves the selection alone when no Tank is hit
checkTankSelectionKeepsOnMiss(worldX, worldY) ==
    LET gx == HitGridX(mapData_, scrollX_, worldX)
        gy == HitGridY(mapData_, scrollY_, worldY)
        keep == [hasTankSelected |-> hasTankSelected_,
                 selectedTankX |-> selectedTankX_,
                 selectedTankY |-> selectedTankY_,
                 highlightModels |-> highlightModels_, hit |-> FALSE]
    IN  IF InBounds(mapData_, gx, gy) /\ IsTank(CellAt(mapData_, gx, gy))
        THEN [hasTankSelected |-> TRUE, selectedTankX |-> gx, selectedTankY |-> gy,
              highlightModels |-> HighlightFor(mapData_, gx, gy), hit |-> TRUE]
        ELSE keep

(* checkTankSelection(worldX, worldY): the selection and highlight batch   *)
(* it leaves.  hit tells whether sendHighlightRequest was called.          *)
checkTankSelection(worldX, worldY) ==
    LET gx == HitGridX(mapData_, scrollX_, worldX)
        gy == HitGridY(mapData_, scrollY_, worldY)
        keep == [hasTankSelected |-> hasTankSelected_,
                 selectedTankX |-> selectedTankX_,
                 selectedTankY |-> selectedTankY_,
                 highlightModels |-> highlightModels_, hit |-> FALSE]
    IN  IF ~mapDataLoaded_ THEN keep
        ELSE IF InBounds(mapData_, gx, gy) /\ IsTank(CellAt(mapData_, gx, gy))
        THEN [hasTankSelected |-> TRUE, selectedTankX |-> gx, selectedTankY |-> gy,
              highlightModels |-> HighlightFor(mapData_, gx, gy), hit |-> TRUE]
        ELSE [keep EXCEPT !.hasTankSelected = FALSE, !.highlightModels = <<>>]

\* a variant that writes the row where the column belongs
JsonPayloadTransposed(gridX, gridY) == [x |-> gridY, y |-> gridX, value |-> "XH"]

\* the JSON payload sendHighlightRequest builds: {"x": gridX, "y": gridY,
\* "value": "XH"}
JsonPayload(gridX, gridY) == [x |-> gridX, y |-> gridY, value |-> "XH"]

\* a variant that drops the selection once the request has been made
sendHighlightRequestDropsSelection(sel, delivered) ==
    [sel EXCEPT !.hasTankSelected = FALSE, !.highlightModels = <<>>]

\* a variant that takes the selection back when the request fails
sendHighlightRequestUndoOnFailure(sel, delivered) ==
    IF delivered THEN sel
    ELSE [sel EXCEPT !.hasTankSelected = FALSE, !.highlightModels = <<>>]

(* sendHighlightRequest, called by checkTankSelection after a hit: it      *)
(* posts the cell with postJSON, which returns when the request has been   *)
(* answered or has failed, and logs the outcome.  It returns nothing and   *)
(* writes no member: the selection sel of the hit stands either way.       *)
sendHighlightRequest(sel, delivered) == sel

\* a variant that stores the scaled zoom without the range test
PinchZoomUnchecked(zoom, lastDistance, currentDistance) ==
    IF lastDistance > 0
    THEN RoundDiv(zoom * currentDistance, lastDistance)
    ELSE zoom

\* a variant that never changes the zoom
PinchZoomFrozen(zoom, lastDistance, currentDistance) == zoom

(* the zoom a pinch move leaves: scale = currentDistance / lastPinchDistance_, *)
(* newZoom = zoomLevel_ * scale, stored when it lies in [minZoom_, maxZoom_]   *)
PinchZoom(zoom, lastDistance, currentDistance) ==
    IF lastDistance > 0
    THEN LET newZoom == RoundDiv(zoom * currentDistance, lastDistance)
         IN  IF newZoom >= minZoom_ /\ newZoom <= maxZoom_ THEN newZoom ELSE zoom
    ELSE zoom

\* whether that pinch move stored a zoom (and marked the projection dirty)
PinchAccepted(zoom, lastDistance, currentDistance) ==
    /\ lastDistance > 0
    /\ LET newZoom == RoundDiv(zoom * currentDistance, lastDistance)
       IN  newZoom >= minZoom_ /\ newZoom <= maxZoom_

\* ptrs with a new pointer put at index i (from 0)
InsertAt(ptrs, i, ptr) ==
    SubSeq(ptrs, 1, i) \o <<ptr>> \o SubSeq(ptrs, i + 1, Len(ptrs))

\* ptrs without the pointer at index i (from 0)
RemoveAt(ptrs, i) == SubSeq(ptrs, 1, i) \o SubSeq(ptrs, i + 2, Len(ptrs))

Pointer(id, pos) == [id |-> id, pos |-> pos]

\* a pointer touches an empty surface: AMOTION_EVENT_ACTION_DOWN
ActionDown ==
    /\ phase = "running"
    /\ nEvents < MaxEvents
    /\ pointers = NoPointers
    /\ \E p \in ScreenPoints, delivered \in BOOLEAN :
         LET w   == convertScreenToWorld(p)
             hit == checkTankSelection(w[1], w[2])
             sel == IF hit.hit THEN sendHighlightRequest(hit, delivered) ELSE hit
         IN  \* without a hit no request is made
             /\ (~hit.hit => ~delivered)
             /\ pointers' = << Pointer(NewId(pointers), p) >>
             /\ touch1_' = Touch(w[1], w[2], TRUE)
             /\ lastTouchX_' = w[1]
             /\ lastTouchY_' = w[2]
             /\ hasTankSelected_' = sel.hasTankSelected
             /\ selectedTankX_' = sel.selectedTankX
             /\ selectedTankY_' = sel.selectedTankY
             /\ highlightModels_' = sel.highlightModels
             /\ lastEvent' = [Event("down", 0, 1, FALSE) EXCEPT
                                 !.notified = IF ~hit.hit THEN "none"
                                              ELSE IF delivered THEN "ok"
                                              ELSE "failed",
                                 !.posted = IF ~hit.hit THEN <<>>
                                            ELSE << JsonPayload(hit.selectedTankX,
                                                                hit.selectedTankY) >>]
    /\ touch2_' = [touch2_ EXCEPT !.active = FALSE]
    /\ isPinching_' = FALSE
    /\ isScrolling_' = TRUE
    /\ owner1' = NewId(pointers)
    /\ owner2' = 0
    /\ nEvents' = nEvents + 1
    /\ UNCHANGED <<phase, drawn, viewVars, batchVars, mapVars, scrollVars,
                   zoomLevel_, lastPinchDistance_>>

\* a variant that lets a pan go on under the pinch
ScrollingKeptAtPinchStart(isScrolling) == isScrolling

\* isScrolling_ once a pointer-down has started a pinch: isScrolling_ = false
ScrollingAtPinchStart(isScrolling) == FALSE

(* a further pointer touches the surface: AMOTION_EVENT_ACTION_POINTER_DOWN. *)
(* The event lists every pointer; the new one may take any index.  held is   *)
(* the least number of pointers already down when the event is delivered,   *)
(* most the number of pointers the surface tracks.                          *)
PointerDownUpTo(held, most) ==
    /\ phase = "running"
    /\ nEvents < MaxEvents
    /\ Len(pointers) >= held
    /\ Len(pointers) < most
    /\ \E p \in ScreenPoints, i \in 0..Len(pointers) :
         LET ptrs == InsertAt(pointers, i, Pointer(NewId(pointers), p))
             w1   == convertScreenToWorld(ptrs[1].pos)
             w2   == convertScreenToWorld(ptrs[2].pos)
         IN  /\ pointers' = ptrs
             /\ lastEvent' = Event("pointer_down", i, Len(ptrs), FALSE)
             /\ IF Len(ptrs) >= 2
                THEN /\ touch1_' = Touch(w1[1], w1[2], TRUE)
                     /\ touch2_' = Touch(w2[1], w2[2], TRUE)
                     /\ isPinching_' = TRUE
                     /\ isScrolling_' = ScrollingAtPinchStart(isScrolling_)
                     /\ lastPinchDistance_' =
                            calculateDistance(w1[1], w1[2], w2[1], w2[2])
                     /\ owner1' = ptrs[1].id
                     /\ owner2' = ptrs[2].id
                ELSE UNCHANGED <<touch1_, touch2_, isPinching_, isScrolling_,
                                 lastPinchDistance_, owner1, owner2>>
    /\ nEvents' = nEvents + 1
    /\ UNCHANGED <<phase, drawn, viewVars, batchVars, mapVars, scrollVars, selectionVars,
                   zoomLevel_, lastTouchX_, lastTouchY_>>

PointerDown(held) == PointerDownUpTo(held, MaxPointers)

\* Android reports a further pointer only while one is already down
ActionPointerDown == PointerDown(1)

\* a variant of the case below that also drops the selection
UpOrCancelDeselects(type) ==
    /\ touch1_' = [touch1_ EXCEPT !.active = FALSE]
    /\ touch2_' = [touch2_ EXCEPT !.active = FALSE]
    /\ isPinching_' = FALSE
    /\ isScrolling_' = FALSE
    /\ hasTankSelected_' = FALSE
    /\ highlightModels_' = <<>>
    /\ lastEvent' = Event(type, 0, Len(pointers), FALSE)
    /\ pointers' = NoPointers
    /\ owner1' = 0
    /\ owner2' = 0
    /\ nEvents' = nEvents + 1
    /\ UNCHANGED <<phase, drawn, viewVars, batchVars, mapVars, scrollVars,
                   selectedTankX_, selectedTankY_,
                   zoomLevel_, lastTouchX_, lastTouchY_, lastPinchDistance_>>

\* a variant of the case below that also resets the zoom
UpOrCancelResetsZoom(type) ==
    /\ touch1_' = [touch1_ EXCEPT !.active = FALSE]
    /\ touch2_' = [touch2_ EXCEPT !.active = FALSE]
    /\ isPinching_' = FALSE
    /\ isScrolling_' = FALSE
    /\ zoomLevel_' = defaultZoom
    /\ lastEvent' = Event(type, 0, Len(pointers), FALSE)
    /\ pointers' = NoPointers
    /\ owner1' = 0
    /\ owner2' = 0
    /\ nEvents' = nEvents + 1
    /\ UNCHANGED <<phase, drawn, viewVars, batchVars, mapVars, scrollVars, selectionVars,
                   lastTouchX_, lastTouchY_, lastPinchDistance_>>

\* a variant of the case below that leaves isScrolling_ as it was
UpOrCancelKeepsScrolling(type) ==
    /\ touch1_' = [touch1_ EXCEPT !.active = FALSE]
    /\ touch2_' = [touch2_ EXCEPT !.active = FALSE]
    /\ isPinching_' = FALSE
    /\ lastEvent' = Event(type, 0, Len(pointers), FALSE)
    /\ pointers' = NoPointers
    /\ owner1' = 0
    /\ owner2' = 0
    /\ nEvents' = nEvents + 1
    /\ UNCHANGED <<phase, drawn, viewVars, batchVars, mapVars, scrollVars, selectionVars,
                   zoomLevel_, lastTouchX_, lastTouchY_, lastPinchDistance_,
                   isScrolling_>>

(* the last pointer leaves the surface (AMOTION_EVENT_ACTION_UP) or the    *)
(* gesture is cancelled (AMOTION_EVENT_ACTION_CANCEL): one case label.     *)
UpOrCancel(type) ==
    /\ touch1_' = [touch1_ EXCEPT !.active = FALSE]
    /\ touch2_' = [touch2_ EXCEPT !.active = FALSE]
    /\ isPinching_' = FALSE
    /\ isScrolling_' = FALSE
    /\ lastEvent' = Event(type, 0, Len(pointers), FALSE)
    /\ pointers' = NoPointers
    /\ owner1' = 0
    /\ owner2' = 0
    /\ nEvents' = nEvents + 1
    /\ UNCHANGED <<phase, drawn, viewVars, batchVars, mapVars, scrollVars, selectionVars,
                   zoomLevel_, lastTouchX_, lastTouchY_, lastPinchDistance_>>

ActionUp ==
    /\ phase = "running"
    /\ nEvents < MaxEvents
    /\ Len(pointers) = 1
    /\ UpOrCancel("up")

ActionCancel ==
    /\ phase = "running"
    /\ nEvents < MaxEvents
    /\ Len(pointers) >= 1
    /\ UpOrCancel("cancel")

\* a variant that takes the leaving pointer for the one still down
SurvivorIndexOfLeaver(pointerIndex) == pointerIndex

\* the index of the pointer read when pointerIndex leaves during a pinch:
\* pointers[1] when pointerIndex == 0, else pointers[0]
SurvivorIndex(pointerIndex) == IF pointerIndex = 0 THEN 1 ELSE 0

\* a variant that leaves the second slot active when the pinch ends
ReleasedTouchStaysActive(touch) == touch

\* the second slot once a pointer has left a pinch: touch2_.active = false
ReleasedTouch(touch) == [touch EXCEPT !.active = FALSE]

(* one of several pointers leaves the surface:                             *)
(* AMOTION_EVENT_ACTION_POINTER_UP.  The event still lists the leaving     *)
(* pointer, at pointerIndex.                                               *)
ActionPointerUp ==
    /\ phase = "running"
    /\ nEvents < MaxEvents
    /\ Len(pointers) >= 2
    /\ \E i \in 0..(Len(pointers) - 1) :
         LET survivor == pointers[SurvivorIndex(i) + 1]
             w        == convertScreenToWorld(survivor.pos)
         IN  /\ lastEvent' = Event("pointer_up", i, Len(pointers), FALSE)
             /\ pointers' = RemoveAt(pointers, i)
             /\ IF isPinching_
                THEN /\ touch1_' = Touch(w[1], w[2], touch1_.active)
                     /\ touch2_' = ReleasedTouch(touch2_)
                     /\ lastTouchX_' = w[1]
                     /\ lastTouchY_' = w[2]
                     /\ isScrolling_' = TRUE
                     /\ owner1' = IF touch1_.active THEN survivor.id ELSE 0
                ELSE /\ touch1_' = [touch1_ EXCEPT !.active = FALSE]
                     /\ touch2_' = [touch2_ EXCEPT !.active = FALSE]
                     /\ isScrolling_' = FALSE
                     /\ owner1' = 0
                     /\ UNCHANGED <<lastTouchX_, lastTouchY_>>
    /\ isPinching_' = FALSE
    /\ owner2' = 0
    /\ nEvents' = nEvents + 1
    /\ UNCHANGED <<phase, drawn, viewVars, batchVars, mapVars, scrollVars, selectionVars,
                   zoomLevel_, lastPinchDistance_>>

\* a variant that adds the pointer position itself to the scroll
PanScrollAbsolute(scroll, anchor, world) == scroll + world

\* the scroll a pan move leaves: delta = world - lastTouch, scroll += delta
PanScroll(scroll, anchor, world) == scroll + (world - anchor)

\* a variant that keeps a reference distance that is not positive
PinchReferenceOncePositive(lastDistance, currentDistance) ==
    IF lastDistance > 0 THEN currentDistance ELSE lastDistance

\* the reference distance a pinch move leaves: lastPinchDistance_ =
\* currentDistance, after and outside the test of the old reference
PinchReference(lastDistance, currentDistance) == currentDistance

\* what the pinch branch of a move does with the zoom
PinchOutcome(zoom, lastDistance, currentDistance) ==
    IF lastDistance <= 0 THEN "unreferenced"
    ELSE IF PinchAccepted(zoom, lastDistance, currentDistance) THEN "scaled"
    ELSE "rejected"

(* a pointer on the surface moves: AMOTION_EVENT_ACTION_MOVE, listing      *)
(* every pointer with its current position.                                *)
ActionMove ==
    /\ phase = "running"
    /\ nEvents < MaxEvents
    /\ Len(pointers) >= 1
    /\ \E k \in 1..Len(pointers), p \in ScreenPoints :
         \* each of these is computed once: the event's pointer list, the
         \* world positions of pointers[0] and pointers[1] (read in the pinch
         \* branch only) and the distance between them
         \E ptrs \in { [pointers EXCEPT ![k].pos = p] } :
         \E w1 \in { convertScreenToWorld(ptrs[1].pos) } :
         \E w2 \in { IF Len(ptrs) >= 2 THEN convertScreenToWorld(ptrs[2].pos)
                                       ELSE w1 } :
         \E currentDistance \in { calculateDistance(w1[1], w1[2], w2[1], w2[2]) } :
             /\ pointers' = ptrs
             /\ lastEvent' =
                    [Event("move", 0, Len(ptrs), StillAfterPinchLift(ptrs)) EXCEPT
                        !.pinch = IF isPinching_ /\ Len(ptrs) >= 2
                                  THEN PinchOutcome(zoomLevel_, lastPinchDistance_,
                                                    currentDistance)
                                  ELSE "none"]
             /\ IF isPinching_ /\ Len(ptrs) >= 2
                THEN /\ touch1_' = Touch(w1[1], w1[2], touch1_.active)
                     /\ touch2_' = Touch(w2[1], w2[2], touch2_.active)
                     /\ zoomLevel_' =
                            PinchZoom(zoomLevel_, lastPinchDistance_, currentDistance)
                     /\ shaderNeedsNewProjectionMatrix_' =
                            (shaderNeedsNewProjectionMatrix_
                             \/ PinchAccepted(zoomLevel_, lastPinchDistance_,
                                              currentDistance))
                     /\ lastPinchDistance_' =
                            PinchReference(lastPinchDistance_, currentDistance)
                     /\ owner1' = IF touch1_.active THEN ptrs[1].id ELSE 0
                     /\ owner2' = IF touch2_.active THEN ptrs[2].id ELSE 0
                     /\ UNCHANGED <<scrollVars, lastTouchX_, lastTouchY_>>
                ELSE IF isScrolling_ /\ ~isPinching_
                THEN /\ scrollX_' = PanScroll(scrollX_, lastTouchX_, w1[1])
                     /\ scrollY_' = PanScroll(scrollY_, lastTouchY_, w1[2])
                     /\ lastTouchX_' = w1[1]
                     /\ lastTouchY_' = w1[2]
                     /\ UNCHANGED <<touch1_, touch2_, zoomLevel_,
                                    shaderNeedsNewProjectionMatrix_,
                                    lastPinchDistance_, owner1, owner2>>
                ELSE UNCHANGED <<touch1_, touch2_, zoomLevel_,
                                 shaderNeedsNewProjectionMatrix_,
                                 lastPinchDistance_, owner1, owner2,
                                 scrollVars, lastTouchX_, lastTouchY_>>
    /\ UNCHANGED <<phase, drawn, width_, height_, projectionMatrix_, batchVars, mapVars,
                   selectionVars, isPinching_, isScrolling_>>
    /\ nEvents' = nEvents + 1

Next ==
    \/ InitRenderer
    \/ Render
    \/ ActionDown
    \/ ActionPointerDown
    \/ ActionMove
    \/ ActionPointerUp
    \/ ActionUp
    \/ ActionCancel

Spec == Init /\ [][Next]_vars

-----------------------------------------------------------------------------
(* The placement / hit-test round trip, as a specification of its own:     *)
(* the renderer holds a W x H map and a scroll offset, and the hit test is *)
(* applied to the centre of a cell as createColoredGrid places it, moved   *)
(* by the scroll offset.                                                   *)

\* scroll offsets tried: multiples of 0.37, which the grid spacing does not divide
ScrollOffsets == { k * (gridSpacing - 3) : k \in (-MaxScroll)..MaxScroll }

\* a w x h map whose cells all hold c
UniformMap(w, h, c) == MapData(w, h, [k \in 1..(w * h) |-> c])

InitHit ==
    /\ phase = "running"
    /\ width_ \in { s[1] : s \in Surfaces }
    /\ height_ \in { s[2] : s \in { t \in Surfaces : t[1] = width_ } }
    /\ shaderNeedsNewProjectionMatrix_ = FALSE
    /\ projectionMatrix_ = [zoom |-> defaultZoom, width |-> width_, height |-> height_]
    /\ mapData_ \in { UniformMap(w, h, c) :
                        w \in 1..MaxDim, h \in 1..MaxDim, c \in {"x", " "} }
    /\ models_ = createColoredGrid(mapData_).models
    /\ triangleModels_ = createColoredGrid(mapData_).triangleModels
    /\ texturedModels_ = createColoredGrid(mapData_).texturedModels
    /\ highlightModels_ = <<>>
    /\ mapDataLoaded_ = TRUE
    /\ tankTextureLoaded_ = TRUE
    /\ glObjects = GlObjectsAfterInit(TRUE)
    /\ scrollX_ \in ScrollOffsets
    /\ scrollY_ \in ScrollOffsets
    /\ lastTouchX_ = 0
    /\ lastTouchY_ = 0
    /\ isScrolling_ = FALSE
    /\ zoomLevel_ = defaultZoom
    /\ touch1_ = Touch(0, 0, FALSE)
    /\ touch2_ = Touch(0, 0, FALSE)
    /\ isPinching_ = FALSE
    /\ lastPinchDistance_ = 0
    /\ selectedTankX_ = -1
    /\ selectedTankY_ = -1
    /\ hasTankSelected_ = FALSE
    /\ pointers = NoPointers
    /\ owner1 = 0
    /\ owner2 = 0
    /\ nEvents = 0
    /\ lastEvent = [type |-> "none"]
    /\ drawn = <<>>

\* checkTankSelection at the drawn centre of cell (x, y)
HitTest ==
    /\ phase = "running"
    /\ \E x \in 0..(mapData_.width - 1), y \in 0..(mapData_.height - 1) :
         LET e      == GridExtent(GridSize(mapData_))
             worldX == CellCenterX(x, e) + scrollX_
             worldY == CellCenterY(y, e) + scrollY_
             sel    == checkTankSelection(worldX, worldY)
         IN  /\ hasTankSelected_' = sel.hasTankSelected
             /\ selectedTankX_' = sel.selectedTankX
             /\ selectedTankY_' = sel.selectedTankY
             /\ highlightModels_' = sel.highlightModels
             /\ lastEvent' = [type |-> "hit", x |-> x, y |-> y,
                              gx |-> HitGridX(mapData_, scrollX_, worldX),
                              gy |-> HitGridY(mapData_, scrollY_, worldY)]
    /\ UNCHANGED <<phase, drawn, viewVars, batchVars, mapVars, scrollVars,
                   lastTouchX_, lastTouchY_, isScrolling_, zoomLevel_,
                   touch1_, touch2_, isPinching_, lastPinchDistance_,
                   pointers, owner1, owner2, nEvents>>

NextHit == HitTest

SpecHit == InitHit /\ [][NextHit]_vars

-----------------------------------------------------------------------------
(* Loading a grid: the two parsers and the fallback grid, each applied to  *)
(* one input source.                                                       *)

\* the characters of the CSV texts tried
CsvChars == {"x", "o", ",", " ", "\n"}

CsvTexts == UNION { [1..n -> CsvChars] : n \in 0..MaxText }

\* the row arrays tried in a JSON body; an element is the text of a string
JsonRowArrays ==
    { << <<"x">>, <<"o">> >>,
      << <<" ">>, <<" ">> >>,
      << <<"X">>, <<"O">>, <<"1">> >>,
      << <<"2">>, <<"3">>, <<"?">> >>,
      << <<"o", "x">>, <<>> >>,
      <<>> }

\* the declared dimensions tried: absent, or -1 up to one more than MaxRows
DeclaredDimensions == { <<>> } \cup { <<n>> : n \in (-1)..(MaxRows + 1) }

JsonBodies ==
    { [hasData |-> TRUE, rows |-> r, columns |-> c, data |-> d] :
        r \in DeclaredDimensions, c \in DeclaredDimensions,
        d \in UNION { [1..n -> JsonRowArrays] : n \in 0..MaxRows } }
    \cup { [hasData |-> FALSE, rows |-> <<>>, columns |-> <<>>, data |-> <<>>] }

\* the body {"dimensions":{"rows":2,"columns":2},"data":[["x","o"],[" "," "]]}
TwoByTwoBody ==
    [hasData |-> TRUE, rows |-> <<2>>, columns |-> <<2>>,
     data |-> << << <<"x">>, <<"o">> >>, << <<" ">>, <<" ">> >> >>]

InitLoad ==
    /\ phase = "loading"
    /\ lastEvent \in
          { [type |-> "source", kind |-> "csv", text |-> t] : t \in CsvTexts }
          \cup { [type |-> "source", kind |-> "json", body |-> b] : b \in JsonBodies }
          \cup { [type |-> "source", kind |-> "fallback"] }
    /\ width_ = 0
    /\ height_ = 0
    /\ shaderNeedsNewProjectionMatrix_ = TRUE
    /\ projectionMatrix_ = [zoom |-> 0, width |-> 0, height |-> 0]
    /\ models_ = <<>>
    /\ triangleModels_ = <<>>
    /\ texturedModels_ = <<>>
    /\ highlightModels_ = <<>>
    /\ mapData_ = EmptyMapData
    /\ mapDataLoaded_ = FALSE
    /\ tankTextureLoaded_ = FALSE
    /\ glObjects = {}
    /\ scrollX_ = 0
    /\ scrollY_ = 0
    /\ lastTouchX_ = 0
    /\ lastTouchY_ = 0
    /\ isScrolling_ = FALSE
    /\ zoomLevel_ = defaultZoom
    /\ touch1_ = Touch(0, 0, FALSE)
    /\ touch2_ = Touch(0, 0, FALSE)
    /\ isPinching_ = FALSE
    /\ lastPinchDistance_ = 0
    /\ selectedTankX_ = -1
    /\ selectedTankY_ = -1
    /\ hasTankSelected_ = FALSE
    /\ pointers = NoPointers
    /\ owner1 = 0
    /\ owner2 = 0
    /\ nEvents = 0
    /\ drawn = <<>>

\* what a load leaves alone
loadFrame == <<width_, height_, shaderNeedsNewProjectionMatrix_, projectionMatrix_,
               highlightModels_, tankTextureLoaded_, glObjects,
               scrollX_, scrollY_, lastTouchX_, lastTouchY_, isScrolling_,
               zoomLevel_, touch1_, touch2_, isPinching_, lastPinchDistance_,
               selectedTankX_, selectedTankY_, hasTankSelected_,
               pointers, owner1, owner2, nEvents, drawn>>

\* parseCSVData on a text
ParseCSV ==
    /\ phase = "loading"
    /\ lastEvent.kind = "csv"
    /\ mapData_' = parseCSVData(lastEvent.text)
    /\ phase' = "loaded"
    /\ lastEvent' = [type |-> "csv", text |-> lastEvent.text]
    /\ UNCHANGED <<loadFrame, batchVars, mapDataLoaded_>>

\* parseJSONData on a body: it returns true or false, or the exception
\* thrown by resize ends the process
ParseJSON ==
    /\ phase = "loading"
    /\ lastEvent.kind = "json"
    /\ LET r == parseJSONData(lastEvent.body)
       IN  /\ mapData_' = r.mapData
           /\ phase' = IF r.thrown THEN "terminated"
                       ELSE IF r.returned THEN "loaded" ELSE "failed"
    /\ lastEvent' = [type |-> "json", body |-> lastEvent.body]
    /\ UNCHANGED <<loadFrame, batchVars, mapDataLoaded_>>

\* createFallbackMapData
CreateFallback ==
    /\ phase = "loading"
    /\ lastEvent.kind = "fallback"
    /\ mapData_' = FallbackMapData
    /\ mapDataLoaded_' = TRUE
    /\ models_' = createColoredGrid(FallbackMapData).models
    /\ triangleModels_' = createColoredGrid(FallbackMapData).triangleModels
    /\ texturedModels_' = createColoredGrid(FallbackMapData).texturedModels
    /\ phase' = "loaded"
    /\ lastEvent' = [type |-> "fallback"]
    /\ UNCHANGED loadFrame

\* downloadMapData once the map has been parsed: mapDataLoaded_ is set and
\* createColoredGrid rebuilds the batches from the map
BuildGrid ==
    /\ phase = "loaded"
    /\ lastEvent.type \in {"csv", "json"}
    /\ mapDataLoaded_' = TRUE
    /\ models_' = createColoredGrid(mapData_).models
    /\ triangleModels_' = createColoredGrid(mapData_).triangleModels
    /\ texturedModels_' = createColoredGrid(mapData_).texturedModels
    /\ highlightModels_' = createColoredGrid(mapData_).highlightModels
    /\ phase' = "built"
    /\ UNCHANGED <<mapData_, lastEvent, width_, height_,
                   shaderNeedsNewProjectionMatrix_, projectionMatrix_,
                   tankTextureLoaded_, glObjects, scrollX_, scrollY_, lastTouchX_,
                   lastTouchY_,
                   isScrolling_, zoomLevel_, touch1_, touch2_, isPinching_,
                   lastPinchDistance_, selectedTankX_, selectedTankY_,
                   hasTankSelected_, pointers, owner1, owner2, nEvents, drawn>>

NextLoad == ParseCSV \/ ParseJSON \/ CreateFallback \/ BuildGrid

SpecLoad == InitLoad /\ [][NextLoad]_vars

-----------------------------------------------------------------------------
(* handleInput fed every event its input buffer can hold: key events, and *)
(* a pointer-down that lists a single pointer, besides the events of a     *)
(* well-formed gesture; the surface may change size between frames.        *)

\* surface sizes when the window is resized while the renderer runs
ResizedSurfaces == { <<80, 40>>, <<40, 40>> }

\* the grid of the map the renderer was initialized with
LoadedGrid == MapData(2, 2, << "x", "o", " ", " " >>)

\* the Renderer when its constructor returns, map and tank image fetched
InitInput ==
    LET r == downloadMapData(TRUE, LoadedGrid, TRUE, TRUE)
    IN  /\ phase = "running"
        /\ width_ = -1
        /\ height_ = -1
        /\ shaderNeedsNewProjectionMatrix_ = TRUE
        /\ projectionMatrix_ = [zoom |-> 0, width |-> 0, height |-> 0]
        /\ models_ = r.batches.models
        /\ triangleModels_ = r.batches.triangleModels
        /\ texturedModels_ = r.batches.texturedModels
        /\ highlightModels_ = r.batches.highlightModels
        /\ mapData_ = r.mapData
        /\ mapDataLoaded_ = r.mapDataLoaded
        /\ tankTextureLoaded_ = r.tankTextureLoaded
        /\ glObjects = GlObjectsAfterInit(r.tankTextureLoaded)
        /\ scrollX_ = 0
        /\ scrollY_ = 0
        /\ lastTouchX_ = 0
        /\ lastTouchY_ = 0
        /\ isScrolling_ = FALSE
        /\ zoomLevel_ = defaultZoom
        /\ touch1_ = Touch(0, 0, FALSE)
        /\ touch2_ = Touch(0, 0, FALSE)
        /\ isPinching_ = FALSE
        /\ lastPinchDistance_ = 0
        /\ selectedTankX_ = -1
        /\ selectedTankY_ = -1
        /\ hasTankSelected_ = FALSE
        /\ pointers = NoPointers
        /\ owner1 = 0
        /\ owner2 = 0
        /\ nEvents = 0
        /\ lastEvent = [type |-> "init", gridOk |-> TRUE, grid |-> LoadedGrid,
                        imageOk |-> TRUE, decodeOk |-> TRUE]
        /\ drawn = <<>>

\* one call of render on a surface that may have been resized
RenderResized == RenderOn(ResizedSurfaces)

\* a pointer-down event, which may be the only pointer it lists
AnyPointerDown == PointerDown(0)

\* a key event: the key loop of handleInput logs it and stores nothing
ActionKey ==
    /\ phase = "running"
    /\ nEvents < MaxEvents
    /\ lastEvent' = Event("key", 0, 0, FALSE)
    /\ nEvents' = nEvents + 1
    /\ UNCHANGED <<phase, drawn, viewVars, batchVars, mapVars, scrollVars,
                   selectionVars, lastTouchX_, lastTouchY_, isScrolling_,
                   zoomLevel_, touch1_, touch2_, isPinching_, lastPinchDistance_,
                   pointers, owner1, owner2>>

NextInput ==
    \/ RenderResized
    \/ ActionDown
    \/ AnyPointerDown
    \/ ActionMove
    \/ ActionPointerUp
    \/ ActionUp
    \/ ActionCancel
    \/ ActionKey

SpecInput == InitInput /\ [][NextInput]_vars

-----------------------------------------------------------------------------
(* Properties *)

\* this step is handleInput handling one event of the given action
Handles(type) == nEvents' = nEvents + 1 /\ lastEvent'.type = type

\* this step is a move event that takes the pinch branch
PinchMove == Handles("move") /\ isPinching_ /\ Len(pointers) >= 2

\* zoomLevel_ * (currentDistance / lastPinchDistance_) of this pinch move
ScaledZoom == RoundDiv(zoomLevel_ * lastPinchDistance_', lastPinchDistance_)

\* the rounded grid coordinates of the hit test of this down event
DownGridX == HitGridX(mapData_, scrollX_, lastTouchX_')

DownGridY == HitGridY(mapData_, scrollY_, lastTouchY_')

\* the hit test of this down event lands on an in-bounds Tank cell
DownHitsTank ==
    /\ InBounds(mapData_, DownGridX, DownGridY)
    /\ IsTank(CellAt(mapData_, DownGridX, DownGridY))

\* C1: whatever pointer events handleInput has processed, the zoom level
\* lies in the zoom range: minZoom <= zoomLevel <= maxZoom in every
\* reachable state.
ZoomWithinRange == minZoom_ <= zoomLevel_ /\ zoomLevel_ <= maxZoom_

\* a gesture has ended after a pinch changed the zoom
ZoomWithinRange_witness ==
    /\ lastEvent.type \in {"pointer_up", "up", "cancel"}
    /\ zoomLevel_ # defaultZoom
    /\ ZoomWithinRange

\* C2: a pinch move whose scaled zoom exceeds maxZoom leaves zoomLevel equal
\* to maxZoom, and one whose scaled zoom is below minZoom leaves it equal to
\* minZoom.
PinchClampsToBounds ==
    [][ (PinchMove /\ lastPinchDistance_ > 0) =>
            /\ (ScaledZoom > maxZoom_ => zoomLevel_' = maxZoom_)
            /\ (ScaledZoom < minZoom_ => zoomLevel_' = minZoom_) ]_vars

\* C3: a pinch move with a positive reference distance whose scaled zoom
\* lies in [minZoom, maxZoom] leaves zoomLevel equal to
\* zoomLevel * currentDistance / lastPinchDistance; from zoom 1.0, a
\* reference distance of 100 and a new distance of 150 give zoom 1.5.
PinchScalesZoom ==
    [][ /\ PinchZoom(defaultZoom, 100 * Q, 150 * Q) = 150
        /\ (PinchMove /\ lastPinchDistance_ > 0
                      /\ ScaledZoom >= minZoom_ /\ ScaledZoom <= maxZoom_)
             => zoomLevel_' = ScaledZoom ]_vars

\* a pinch move has just raised the zoom above the default, inside the range
PinchScalesZoom_witness ==
    /\ lastEvent.type = "move"
    /\ isPinching_
    /\ lastEvent.pointerCount = 2
    /\ zoomLevel_ > defaultZoom
    /\ zoomLevel_ < maxZoom_
    /\ lastPinchDistance_ > 0

\* C4: with a loaded map, a down event whose hit test lands on a cell that
\* is not a Tank, or outside the grid, leaves hasTankSelected false and the
\* highlight batch empty, whatever the selection was.
MissClearsSelection ==
    [][ (Handles("down") /\ mapDataLoaded_ /\ ~DownHitsTank) =>
            (~hasTankSelected_' /\ highlightModels_' = <<>>) ]_vars

\* a down event on an in-bounds cell that is no Tank has cleared an earlier
\* selection (selectedTankX_ still names the cell selected before)
MissClearsSelection_witness ==
    /\ lastEvent.type = "down"
    /\ selectedTankX_ >= 0
    /\ ~hasTankSelected_
    /\ highlightModels_ = <<>>
    /\ InBounds(mapData_, HitGridX(mapData_, scrollX_, lastTouchX_),
                          HitGridY(mapData_, scrollY_, lastTouchY_))

\* C5: for every map size W x H, every cell (x, y) of it and every scroll
\* offset, the hit test at the drawn centre of the cell moved by the scroll
\* offset computes the grid coordinates (x, y), and selects that cell when
\* it is a Tank.
HitTestInvertsPlacement ==
    lastEvent.type = "hit" =>
        /\ lastEvent.gx = lastEvent.x
        /\ lastEvent.gy = lastEvent.y
        /\ IsTank(CellAt(mapData_, lastEvent.x, lastEvent.y)) =>
               /\ hasTankSelected_
               /\ selectedTankX_ = lastEvent.x
               /\ selectedTankY_ = lastEvent.y

\* the last cell of a map that is not square was hit under a scroll offset
\* that is not zero on either axis
HitTestInvertsPlacement_witness ==
    /\ lastEvent.type = "hit"
    /\ mapData_.width # mapData_.height
    /\ lastEvent.x = mapData_.width - 1
    /\ lastEvent.y = mapData_.height - 1
    /\ lastEvent.x # lastEvent.y
    /\ scrollX_ # 0
    /\ scrollY_ # 0
    /\ hasTankSelected_
    /\ selectedTankX_ = lastEvent.x
    /\ selectedTankY_ = lastEvent.y

\* C6: a down event whose world position maps to an in-bounds cell holding
\* 'x' or 'X' leaves that cell's grid coordinates selected and a highlight
\* batch that is not empty.
TankDownSelects ==
    [][ (Handles("down") /\ DownHitsTank) =>
            /\ hasTankSelected_'
            /\ selectedTankX_' = DownGridX
            /\ selectedTankY_' = DownGridY
            /\ highlightModels_' # <<>>
            /\ VertexCount(highlightModels_'[1]) > 0 ]_vars

\* a down at the centre of cell (0,0) of the 10x10 fallback grid, with
\* scroll (0,0) and zoom 1, has selected (0,0)
TankDownSelects_witness ==
    /\ lastEvent.type = "down"
    /\ mapData_ = FallbackMapData
    /\ scrollX_ = 0 /\ scrollY_ = 0
    /\ zoomLevel_ = defaultZoom
    /\ lastTouchX_ = CellCenterX(0, GridExtent(10))
    /\ lastTouchY_ = CellCenterY(0, GridExtent(10))
    /\ hasTankSelected_
    /\ selectedTankX_ = 0 /\ selectedTankY_ = 0
    /\ highlightModels_ # <<>>

\* this step is the lift of one of two pointers during a pinch
PinchLift == Handles("pointer_up") /\ isPinching_ /\ Len(pointers) = 2

\* the lift leaves the tracker panning, anchored at the surviving pointer
LiftAnchorsAtSurvivor ==
    PinchLift =>
        /\ ~isPinching_'
        /\ isScrolling_'
        /\ Len(pointers') = 1
        /\ <<lastTouchX_', lastTouchY_'>> = convertScreenToWorld(pointers'[1].pos)

\* C7 (as stated): when one of two pointers lifts during a pinch, whichever
\* index lifts, the tracker is left panning with the anchor at the surviving
\* pointer's position in that event, and the next move event that reports
\* the surviving pointer at the same position leaves the scroll offset
\* unchanged.
PinchLiftThenStillMoveKeepsScroll ==
    [][ /\ LiftAnchorsAtSurvivor
        /\ (AfterPinchLift /\ Handles("move")
                           /\ pointers'[1].pos = pointers[1].pos)
             => UNCHANGED <<scrollX_, scrollY_>> ]_vars

\* C7 (amended): the same, for a next move event handled in the viewport
\* the lift was handled in.
PinchLiftThenStillMoveSameViewport ==
    [][ /\ LiftAnchorsAtSurvivor
        /\ (Handles("move") /\ StillAfterPinchLift(pointers'))
             => UNCHANGED <<scrollX_, scrollY_>> ]_vars

\* such a move event has been handled: after the lift of the pointer at
\* index 0 or 1, in the same viewport, with the survivor where it was
PinchLiftThenStillMoveSameViewport_witness ==
    /\ lastEvent.type = "move"
    /\ lastEvent.still
    /\ lastEvent.viewport = <<width_, height_>>
    /\ isScrolling_
    /\ <<lastTouchX_, lastTouchY_>> = convertScreenToWorld(pointers[1].pos)

\* C8: while a pointer recorded in touch1 (or touch2) stays on the surface
\* and the slot stays active, no event makes the slot hold another pointer.
SlotsKeepTheirPointer ==
    [][ /\ (touch1_.active /\ touch1_'.active /\ owner1 \in Ids(pointers'))
             => owner1' = owner1
        /\ (touch2_.active /\ touch2_'.active /\ owner2 \in Ids(pointers'))
             => owner2' = owner2 ]_vars

\* the render batches hold at least one model
SceneNotEmpty == models_ \o triangleModels_ \o texturedModels_ # <<>>

\* C9: whatever the outcomes of the grid download, the image download and
\* the image decoding, initialization leaves mapDataLoaded true and render
\* batches that are not empty, and the 10x10 fallback grid when the grid
\* download failed.
InitAlwaysLeavesAScene ==
    lastEvent.type = "init" =>
        /\ mapDataLoaded_
        /\ SceneNotEmpty
        /\ (~lastEvent.gridOk => mapData_ = FallbackMapData)

\* C10 (as stated): whenever the grid download succeeds, the map after
\* initialization is the downloaded grid, whether the image download
\* succeeds or fails.
FallbackOnlyWhenGridFails ==
    (lastEvent.type = "init" /\ lastEvent.gridOk) => mapData_ = lastEvent.grid

\* C10 (amended): the map after initialization is the downloaded grid when
\* both the grid download and the image download succeed, whether the image
\* decodes or not, and the fallback grid when either download fails.
FallbackWhenGridOrImageFails ==
    lastEvent.type = "init" =>
        mapData_ = IF lastEvent.gridOk /\ lastEvent.imageOk
                   THEN lastEvent.grid
                   ELSE FallbackMapData

\* initialization has replaced a downloaded grid by the fallback grid
\* because the image download failed
FallbackWhenGridOrImageFails_witness ==
    /\ lastEvent.type = "init"
    /\ lastEvent.gridOk
    /\ ~lastEvent.imageOk
    /\ lastEvent.grid # FallbackMapData
    /\ mapData_ = FallbackMapData
    /\ mapDataLoaded_

-----------------------------------------------------------------------------
(* Frames *)

\* a step of render: the renderer is running and no event is handled
FrameRendered ==
    /\ phase = "running"
    /\ phase' = "running"
    /\ nEvents' = nEvents
    /\ lastEvent' = lastEvent

\* whether a frame issued the pass
Issued(frame, pass) == \E i \in 1..Len(frame) : frame[i] = pass

\* the place of a pass in the order of render's if statements
PassRank(pass) ==
    CASE pass = "line"      -> 1
      [] pass = "triangle"  -> 2
      [] pass = "textured"  -> 3
      [] pass = "highlight" -> 4

\* a fetched grid is installed and the tank image was not decoded
DecodeFailed ==
    /\ phase = "running"
    /\ mapDataLoaded_
    /\ ~tankTextureLoaded_
    /\ mapData_ # FallbackMapData

\* C11: when the grid and the image are fetched but the image decoding
\* fails, initialization leaves tankTextureLoaded false and installs the
\* fetched grid; the renderer runs on, tankTextureLoaded stays false, and
\* every later frame issues no textured pass while it issues the line, the
\* triangle and the highlight pass whenever their batches are not empty.
DecodeFailureSkipsTexturedPass ==
    [][ /\ (/\ lastEvent'.type = "init"
            /\ lastEvent'.gridOk /\ lastEvent'.imageOk /\ ~lastEvent'.decodeOk)
             => /\ phase' = "running"
                /\ ~tankTextureLoaded_'
                /\ mapDataLoaded_'
                /\ mapData_' = lastEvent'.grid
        /\ DecodeFailed => DecodeFailed'
        /\ (DecodeFailed /\ FrameRendered)
             => /\ ~Issued(drawn', "textured")
                /\ Issued(drawn', "line") <=> models_ # <<>>
                /\ Issued(drawn', "triangle") <=> triangleModels_ # <<>>
                /\ Issued(drawn', "highlight") <=> highlightModels_ # <<>> ]_vars

\* after a failed decoding a frame has drawn the grid with a Tank selected:
\* the Tank batch is not empty and only the other three passes were issued
DecodeFailureSkipsTexturedPass_witness ==
    /\ DecodeFailed
    /\ texturedModels_ # <<>>
    /\ hasTankSelected_
    /\ drawn = << "line", "triangle", "highlight" >>

\* C18: every frame issues its passes in the order line, triangle,
\* textured, highlight; the line, triangle and highlight passes are issued
\* exactly when their batches are not empty and the textured pass exactly
\* when its batch is not empty and the texture is loaded; no pass of the
\* frame follows the highlight pass.
PassesInFixedOrder ==
    [][ FrameRendered =>
          /\ \A i, j \in 1..Len(drawn') :
                 i < j => PassRank(drawn'[i]) < PassRank(drawn'[j])
          /\ Issued(drawn', "line") <=> models_ # <<>>
          /\ Issued(drawn', "triangle") <=> triangleModels_ # <<>>
          /\ Issued(drawn', "textured")
                 <=> (texturedModels_ # <<>> /\ tankTextureLoaded_)
          /\ Issued(drawn', "highlight") <=> highlightModels_ # <<>>
          /\ \A i \in 1..Len(drawn') :
                 drawn'[i] = "highlight" => i = Len(drawn') ]_vars

\* a frame has issued all four passes
PassesInFixedOrder_witness ==
    drawn = << "line", "triangle", "textured", "highlight" >>

-----------------------------------------------------------------------------
(* Acquisition and notification *)

\* C12: the map is fetched off the render thread: initialization hands the
\* renderer to the frame loop with the fetch still in flight (the map not
\* yet loaded), and the fetched grid replaces the grid model only in a
\* step of a later frame.
MapFetchedOffRenderThread ==
    [][ /\ (phase = "constructed" /\ phase' = "running") => ~mapDataLoaded_'
        /\ mapData_' # mapData_ => FrameRendered ]_vars

\* C13: the selection notification is fire-and-forget: the down event that
\* selects a Tank is handled, and the events and the frame after it are
\* processed, with the request still pending.
NotificationIsFireAndForget ==
    [][ (Handles("down") /\ DownHitsTank) => lastEvent'.notified = "pending" ]_vars

\* C14: a failed selection notification changes nothing: the down event
\* whose request failed leaves the Tank it hit selected and highlighted,
\* the request is made once per hit, the selection and the highlight batch
\* stay as they are until the next down event, and the down event after a
\* failed request selects the Tank it hits or clears the selection as any
\* other down event does.
FailedNotificationChangesNothing ==
    [][ /\ (Handles("down") /\ DownHitsTank)
             => lastEvent'.notified \in {"ok", "failed"}
        /\ (Handles("down") /\ DownHitsTank /\ lastEvent'.notified = "failed")
             => /\ hasTankSelected_'
                /\ selectedTankX_' = DownGridX
                /\ selectedTankY_' = DownGridY
                /\ highlightModels_' = HighlightFor(mapData_, DownGridX, DownGridY)
        /\ (lastEvent.type = "down" /\ lastEvent.notified = "failed"
                /\ ~Handles("down"))
             => UNCHANGED selectionVars
        /\ (Handles("down") /\ lastEvent'.afterFailed)
             => IF DownHitsTank
                THEN /\ hasTankSelected_'
                     /\ selectedTankX_' = DownGridX
                     /\ selectedTankY_' = DownGridY
                     /\ highlightModels_' # <<>>
                ELSE /\ ~hasTankSelected_'
                     /\ highlightModels_' = <<>> ]_vars

\* the tap after a tap whose request failed has selected a Tank, and its
\* own request was delivered
FailedNotificationChangesNothing_witness ==
    /\ lastEvent.type = "down"
    /\ lastEvent.afterFailed
    /\ lastEvent.notified = "ok"
    /\ hasTankSelected_
    /\ highlightModels_ # <<>>

-----------------------------------------------------------------------------
(* Gesture tracker *)

\* C20: a first-pointer down, from whatever state the tracker is in, leaves
\* it panning: isScrolling true, isPinching false, touch1 active, touch2
\* inactive, and the pan anchor (lastTouchX, lastTouchY) at the world
\* position of the down event.
FirstDownStartsPanning ==
    [][ Handles("down") =>
          /\ isScrolling_'
          /\ ~isPinching_'
          /\ touch1_'.active
          /\ ~touch2_'.active
          /\ << lastTouchX_', lastTouchY_' >>
                 = convertScreenToWorld(pointers'[1].pos) ]_vars

\* a down event after an earlier gesture that pinched (touch2 still holds
\* the position of that gesture's second pointer) has left the tracker
\* panning at a point off the origin
FirstDownStartsPanning_witness ==
    /\ lastEvent.type = "down"
    /\ nEvents >= 3
    /\ touch2_.x # 0
    /\ isScrolling_ /\ ~isPinching_
    /\ touch1_.active /\ ~touch2_.active
    /\ lastTouchX_ # 0

-----------------------------------------------------------------------------
(* Loading *)

\* the lines of a CSV text that hold at least one character
CsvLines(text) == SelectSeq(SplitOn(text, "\n"), LAMBDA l : l # <<>>)

\* the number of cells of such a line: one per comma, and one more unless
\* the line ends with a comma
CsvCellCount(line) ==
    Cardinality({ i \in 1..Len(line) : line[i] = "," })
        + (IF line[Len(line)] = "," THEN 0 ELSE 1)

\* C15: parseCSVData on rows of unequal length gives a rectangular grid:
\* its height is the number of non-empty rows (lines holding at least one
\* character), its width the number of cells of the longest row, it holds
\* width * height cells, and row y holds the cells of the y-th row in
\* their order followed by ' ' up to the width.
CsvLoadIsRectangular ==
    lastEvent.type = "csv" =>
        LET lines == CsvLines(lastEvent.text)
            w     == mapData_.width
            h     == mapData_.height
        IN  /\ h = Len(lines)
            /\ \A y \in 1..h : CsvCellCount(lines[y]) <= w
            /\ h > 0 => \E y \in 1..h : CsvCellCount(lines[y]) = w
            /\ h = 0 => w = 0
            /\ Len(mapData_.data) = w * h
            /\ \A y \in 1..h, x \in 1..w :
                   mapData_.data[(y - 1) * w + x] =
                       IF x <= CsvCellCount(lines[y])
                       THEN CsvCellChar(SplitOn(lines[y], ",")[x])
                       ELSE " "

\* the text "x,o" / "o" has been loaded as the 2x2 grid x o / o ' '
CsvLoadIsRectangular_witness ==
    /\ lastEvent.type = "csv"
    /\ lastEvent.text = << "x", ",", "o", "\n", "o" >>
    /\ mapData_ = MapData(2, 2, << "x", "o", "o", " " >>)

\* C16: after every load that reports success (parseCSVData, parseJSONData
\* with any declared or defaulted dimensions, the fallback grid) width >= 0,
\* height >= 0 and the cell array holds exactly width * height cells.
LoadedGridIsWellFormed ==
    phase = "loaded" =>
        /\ mapData_.width >= 0
        /\ mapData_.height >= 0
        /\ Len(mapData_.data) = mapData_.width * mapData_.height

\* the cells of a map
CellsOf(m) == { m.data[k] : k \in 1..Len(m.data) }

\* C17: every character has exactly one class, the same each time: 'x' and
\* 'X' are Tanks (textured batch), 'o' and 'O' Objects (triangle batch),
\* '1', '2' and '3' outlined cells of three colours of their own, ' ' an
\* outlined cell of the background colour, and every other character is
\* drawn as ' ' is; the 2x2 grid with rows "xo" and two spaces loads as a
\* Tank at (0,0), an Object at (1,0) and Empty cells at (0,1) and (1,1).
ClassificationIsTotal ==
    phase = "loaded" =>
        /\ \A c \in CellsOf(mapData_) :
              /\ BatchOf(c) \in {"textured", "triangle", "line"}
              /\ c \in {"x", "X"} <=> (IsTank(c) /\ BatchOf(c) = "textured")
              /\ c \in {"o", "O"} <=> (IsObject(c) /\ BatchOf(c) = "triangle")
              /\ ~(IsTank(c) /\ IsObject(c))
              /\ c \in {"1", "2", "3"} =>
                     /\ BatchOf(c) = "line"
                     /\ CellColor(c) # CellColor(" ")
                     /\ \A d \in {"1", "2", "3"} \ {c} : CellColor(d) # CellColor(c)
              /\ c \notin {"x", "X", "o", "O", "1", "2", "3"} =>
                     /\ BatchOf(c) = BatchOf(" ")
                     /\ CellColor(c) = CellColor(" ")
        /\ (lastEvent.type = "json" /\ lastEvent.body = TwoByTwoBody) =>
              /\ mapData_.width = 2 /\ mapData_.height = 2
              /\ IsTank(CellAt(mapData_, 0, 0))
              /\ IsObject(CellAt(mapData_, 1, 0))
              /\ CellAt(mapData_, 0, 1) = " "
              /\ CellAt(mapData_, 1, 1) = " "

\* the 2x2 body has been loaded
ClassificationIsTotal_witness ==
    /\ phase = "loaded"
    /\ lastEvent.type = "json"
    /\ lastEvent.body = TwoByTwoBody
    /\ mapData_ = MapData(2, 2, << "x", "o", " ", " " >>)

-----------------------------------------------------------------------------
(* Cell geometry *)

\* the cell quads of the three grid batches
SceneQuads ==
    LET lists == models_ \o triangleModels_ \o texturedModels_
    IN  UNION { { lists[i].quads[k] : k \in 1..Len(lists[i].quads) } :
                  i \in 1..Len(lists) }

\* the sum of the least and the greatest of a set of coordinates: 0 when
\* the set is symmetric about 0
BoundsSum(coords) ==
    (CHOOSE a \in coords : \A b \in coords : a <= b)
        + (CHOOSE a \in coords : \A b \in coords : a >= b)

\* every coordinate but the least has a neighbour gridSpacing below it
EvenlySpaced(coords) ==
    \A a \in coords :
        (\E b \in coords : b < a) => (a - gridSpacing) \in coords

\* C19: for every grid size W x H, square or not, the cell geometry built
\* by createColoredGrid is centred on the world origin on both axes (the
\* bounding box of the cell centres is symmetric about x = 0 and about
\* y = 0) and neighbouring cells are gridSpacing apart on both axes.
GridCentredOnOrigin ==
    (phase = "running" /\ mapDataLoaded_ /\ SceneQuads # {}) =>
        LET xs == { q.x : q \in SceneQuads }
            ys == { q.y : q \in SceneQuads }
        IN  /\ BoundsSum(xs) = 0
            /\ BoundsSum(ys) = 0
            /\ EvenlySpaced(xs)
            /\ EvenlySpaced(ys)


-----------------------------------------------------------------------------
\* the tracker state of handleInput and the view and selection it edits
trackerVars == <<touch1_, touch2_, isPinching_, isScrolling_, lastPinchDistance_,
                 lastTouchX_, lastTouchY_>>

\* d is the length of the vector (dx, dy), to the nearest 1/Q
IsEuclideanLength(d, dx, dy) ==
    LET n == dx * dx + dy * dy
    IN  \/ d = 0 /\ n = 0
        \/ d > 0 /\ d * d - d < n /\ n <= d * d + d

\* C21: a pointer-down event that lists at least two pointers leaves both
\* touch slots active at the world positions of its first two pointers,
\* isPinching_ true, isScrolling_ false and lastPinchDistance_ the Euclidean
\* distance between the two slots; a pointer-down event that lists a single
\* pointer changes nothing the Renderer holds.
PointerDownStartsPinch ==
    [][Handles("pointer_down") =>
         IF lastEvent'.pointerCount >= 2
         THEN LET w1 == convertScreenToWorld(pointers'[1].pos)
                  w2 == convertScreenToWorld(pointers'[2].pos)
              IN  /\ touch1_' = [x |-> w1[1], y |-> w1[2], active |-> TRUE]
                  /\ touch2_' = [x |-> w2[1], y |-> w2[2], active |-> TRUE]
                  /\ isPinching_'
                  /\ ~isScrolling_'
                  /\ IsEuclideanLength(lastPinchDistance_',
                                       touch2_'.x - touch1_'.x,
                                       touch2_'.y - touch1_'.y)
         ELSE UNCHANGED <<trackerVars, viewVars, batchVars, mapVars, scrollVars,
                          selectionVars, zoomLevel_, drawn>>]_vars

\* a pointer-down with one pointer came first and left the anchor of a
\* Renderer that had seen no touch where it was; the pointer-down that
\* followed lists two pointers and has started a pinch between two
\* different points
PointerDownStartsPinch_witness ==
    /\ nEvents = 2
    /\ lastEvent.type = "pointer_down"
    /\ lastEvent.pointerCount = 2
    /\ lastTouchX_ = 0
    /\ lastTouchY_ = 0
    /\ isPinching_
    /\ ~isScrolling_
    /\ touch1_.active
    /\ touch2_.active
    /\ touch1_.x # touch2_.x
    /\ touch1_.y # touch2_.y
    /\ lastPinchDistance_ > 0

-----------------------------------------------------------------------------
\* C22: an up or cancel event, whatever the tracker was doing, leaves both
\* touch slots inactive and isPinching_ and isScrolling_ false, and leaves
\* scrollX_, scrollY_, zoomLevel_ and the selection (with its highlight) as
\* they were.
UpOrCancelEndsGesture ==
    [][Handles("up") \/ Handles("cancel") =>
         /\ ~touch1_'.active
         /\ ~touch2_'.active
         /\ ~isPinching_'
         /\ ~isScrolling_'
         /\ UNCHANGED <<scrollX_, scrollY_, zoomLevel_, selectedTankX_,
                        selectedTankY_, hasTankSelected_, highlightModels_>>]_vars

\* a pinch that had changed the zoom over a selected Tank was cancelled with
\* both pointers down: the tracker is idle, zoom and selection are kept
UpOrCancelEndsGesture_witness ==
    /\ lastEvent.type = "cancel"
    /\ lastEvent.pointerCount = 2
    /\ ~touch1_.active
    /\ ~touch2_.active
    /\ ~isPinching_
    /\ ~isScrolling_
    /\ zoomLevel_ # defaultZoom
    /\ hasTankSelected_
    /\ highlightModels_ # <<>>

-----------------------------------------------------------------------------
\* this step is a move event that takes the pan branch
PanMove == Handles("move") /\ isScrolling_ /\ ~isPinching_

\* C23: a move handled while panning adds (world position of pointer 0
\* minus anchor) to the scroll and makes that position the new anchor, so
\* scroll minus anchor is the same after the move as before it: over a run
\* of pan moves the scroll changes by the last position minus the anchor
\* the run began with, whatever the positions in between.
PanAccumulatesDisplacement ==
    [][PanMove =>
         LET w == convertScreenToWorld(pointers'[1].pos)
         IN  /\ scrollX_' = scrollX_ + (w[1] - lastTouchX_)
             /\ scrollY_' = scrollY_ + (w[2] - lastTouchY_)
             /\ lastTouchX_' = w[1]
             /\ lastTouchY_' = w[2]
             /\ scrollX_' - lastTouchX_' = scrollX_ - lastTouchX_
             /\ scrollY_' - lastTouchY_' = scrollY_ - lastTouchY_]_vars

\* a down at p0 and two pan moves, the last one to another point: the
\* scroll, which began at 0, is the last world position minus that of p0
PanAccumulatesDisplacement_witness ==
    /\ nEvents = 3
    /\ lastEvent.type = "move"
    /\ lastEvent.pointerCount = 1
    /\ isScrolling_
    /\ ~isPinching_
    /\ width_ > 0
    /\ \E p0 \in ScreenPoints :
          /\ p0[1] # pointers[1].pos[1]
          /\ p0[2] # pointers[1].pos[2]
          /\ scrollX_ = lastTouchX_ - convertScreenToWorld(p0)[1]
          /\ scrollY_ = lastTouchY_ - convertScreenToWorld(p0)[2]
          /\ scrollX_ # 0
          /\ scrollY_ # 0

-----------------------------------------------------------------------------
\* the grid cell under the pixel position p, for the current view
GridXAt(p) == HitGridX(mapData_, scrollX_, convertScreenToWorld(p)[1])

GridYAt(p) == HitGridY(mapData_, scrollY_, convertScreenToWorld(p)[2])

\* p lies on an in-bounds Tank cell
HitsTankAt(p) ==
    /\ InBounds(mapData_, GridXAt(p), GridYAt(p))
    /\ IsTank(CellAt(mapData_, GridXAt(p), GridYAt(p)))

\* this step leaves the selection a hit test at p gives: the cell under p
\* when it is a Tank, none otherwise
HitTestedAt(p) ==
    IF HitsTankAt(p)
    THEN /\ hasTankSelected_'
         /\ selectedTankX_' = GridXAt(p)
         /\ selectedTankY_' = GridYAt(p)
         /\ highlightModels_' # <<>>
    ELSE /\ ~hasTankSelected_'
         /\ highlightModels_' = <<>>

\* the position of the pointer the last down or pointer-down event added
AddedPointerPos == pointers[lastEvent.pointerIndex + 1].pos

\* C24 as stated: every pointer-down event, of the first pointer or of a
\* further one, leaves the selection a hit test at that pointer's position
\* gives.
EveryPointerDownHitTests ==
    [][Handles("down") \/ Handles("pointer_down") =>
         HitTestedAt(AddedPointerPos')]_vars

\* C24: the down of the first pointer leaves the selection a hit test at
\* its position gives; the down of a further pointer runs no hit test and
\* leaves the selection and the highlight as they were.
OnlyFirstDownHitTests ==
    [][/\ Handles("down") => HitTestedAt(AddedPointerPos')
       /\ Handles("pointer_down") =>
              UNCHANGED <<selectedTankX_, selectedTankY_, hasTankSelected_,
                          highlightModels_>>]_vars

\* a second pointer has come down on a Tank cell and nothing is selected
OnlyFirstDownHitTests_witness ==
    /\ lastEvent.type = "pointer_down"
    /\ lastEvent.pointerCount = 2
    /\ mapDataLoaded_
    /\ width_ > 0
    /\ HitsTankAt(AddedPointerPos)
    /\ ~hasTankSelected_
    /\ highlightModels_ = <<>>

-----------------------------------------------------------------------------
\* C25: the down of a first pointer on a Tank cell both selects that cell
\* and starts a pan (touch1_ active, isScrolling_ true, isPinching_ false);
\* a move handled while panning changes only the scroll and the anchor and
\* leaves the selection and the highlight as they were.
PanFromTankKeepsSelection ==
    [][/\ Handles("down") /\ HitsTankAt(AddedPointerPos') =>
              /\ hasTankSelected_'
              /\ selectedTankX_' = GridXAt(AddedPointerPos')
              /\ selectedTankY_' = GridYAt(AddedPointerPos')
              /\ touch1_'.active
              /\ isScrolling_'
              /\ ~isPinching_'
       /\ PanMove =>
              /\ hasTankSelected_' = hasTankSelected_
              /\ selectedTankX_' = selectedTankX_
              /\ selectedTankY_' = selectedTankY_
              /\ highlightModels_' = highlightModels_]_vars

\* a down on a Tank and one pan move that changed the scroll: the Tank the
\* down selected is still selected and highlighted, the pan goes on
PanFromTankKeepsSelection_witness ==
    /\ nEvents = 2
    /\ lastEvent.type = "move"
    /\ lastEvent.pointerCount = 1
    /\ isScrolling_
    /\ ~isPinching_
    /\ scrollX_ # 0
    /\ scrollY_ # 0
    /\ hasTankSelected_
    /\ IsTank(CellAt(mapData_, selectedTankX_, selectedTankY_))
    /\ highlightModels_ # <<>>

-----------------------------------------------------------------------------
\* C26: when render returns, the projection is the one built from the
\* current zoom and the current viewport, and the dirty flag is false:
\* a frame that follows a change of zoomLevel_ or of the surface size
\* rebuilds the projection before it draws.
ProjectionFreshAfterRender ==
    [][FrameRendered =>
         /\ projectionMatrix_' = [zoom |-> zoomLevel_', width |-> width_',
                                  height |-> height_']
         /\ ~shaderNeedsNewProjectionMatrix_']_vars

\* the last event, handled in an 80x40 viewport, was a pinch move that
\* stored a new zoom; since then the surface has become 40x40 and a frame
\* has been rendered with the projection for that zoom and that size
ProjectionFreshAfterRender_witness ==
    /\ lastEvent.type = "move"
    /\ lastEvent.pinch = "scaled"
    /\ lastEvent.viewport = <<80, 40>>
    /\ zoomLevel_ # defaultZoom
    /\ width_ = 40
    /\ height_ = 40
    /\ ~shaderNeedsNewProjectionMatrix_
    /\ projectionMatrix_ = [zoom |-> zoomLevel_, width |-> 40, height |-> 40]
    /\ drawn # <<>>

-----------------------------------------------------------------------------
\* C27: every move handled while pinching with at least two pointers leaves
\* lastPinchDistance_ the distance between the world positions of the
\* event's first two pointers, also when the scaled zoom fell outside
\* [minZoom_, maxZoom_] and when the reference before the move was not
\* positive.
PinchMoveStoresDistance ==
    [][PinchMove =>
         LET w1 == convertScreenToWorld(pointers'[1].pos)
             w2 == convertScreenToWorld(pointers'[2].pos)
         IN  /\ IsEuclideanLength(lastPinchDistance_', w2[1] - w1[1], w2[2] - w1[2])
             /\ lastEvent'.pinch \in {"scaled", "rejected", "unreferenced"}
             /\ lastEvent'.pinch = "unreferenced" <=> lastPinchDistance_ <= 0
             /\ lastEvent'.pinch # "scaled" => zoomLevel_' = zoomLevel_]_vars

\* a pinch that began with both pointers on one point, its reference 0,
\* has handled a move that parted them: the zoom is as it was and the
\* reference is now their distance
PinchMoveStoresDistance_witness ==
    /\ lastEvent.type = "move"
    /\ lastEvent.pinch = "unreferenced"
    /\ isPinching_
    /\ pointers[1].pos # pointers[2].pos
    /\ lastPinchDistance_ > 0
    /\ zoomLevel_ = defaultZoom

-----------------------------------------------------------------------------
\* C28: scrollX_ and scrollY_ change only in a move that takes the pan
\* branch and zoomLevel_ only in a move that takes the pinch branch (the
\* tracker pinching, the event listing two pointers or more); a pan move
\* leaves the zoom and a pinch move the scroll as they were; down,
\* pointer-down, pointer-up, up, cancel and key events, and frames, change
\* neither.
ViewChangesOnlyInGestureMoves ==
    [][/\ (scrollX_' # scrollX_ \/ scrollY_' # scrollY_) => PanMove
       /\ zoomLevel_' # zoomLevel_ => PinchMove
       /\ PanMove => zoomLevel_' = zoomLevel_
       /\ PinchMove => scrollX_' = scrollX_ /\ scrollY_' = scrollY_
       /\ \A type \in {"down", "pointer_down", "pointer_up", "up", "cancel", "key"} :
             Handles(type) => /\ scrollX_' = scrollX_
                              /\ scrollY_' = scrollY_
                              /\ zoomLevel_' = zoomLevel_]_vars

\* a pan has moved the scroll and the pinch that followed it has changed
\* the zoom
ViewChangesOnlyInGestureMoves_witness ==
    /\ nEvents = 4
    /\ lastEvent.type = "move"
    /\ lastEvent.pinch = "scaled"
    /\ isPinching_
    /\ scrollX_ # 0
    /\ scrollY_ # 0
    /\ zoomLevel_ # defaultZoom

-----------------------------------------------------------------------------
\* the quads of a batch: those of its one model, none when the list is empty
QuadsOf(list) == IF list = <<>> THEN <<>> ELSE list[1].quads

\* the batch holds a quad centred on (cx, cy)
HasQuadAt(list, cx, cy) ==
    \E i \in 1..Len(QuadsOf(list)) :
        QuadsOf(list)[i].x = cx /\ QuadsOf(list)[i].y = cy

\* every quad of the batch has four vertices and perQuad indices
QuadSizes(list, perQuad) ==
    /\ Len(list) <= 1
    /\ \A i \in 1..Len(QuadsOf(list)) :
          /\ Len(QuadVertices(QuadsOf(list)[i])) = 4
          /\ Len(QuadIndices(list[1].kind, i - 1)) = perQuad

-----------------------------------------------------------------------------
\* C30: in every state, before and after initialization and after every
\* input event, the highlight batch is non-empty exactly when
\* hasTankSelected_ holds, and a non-empty highlight batch is one line
\* model of one quad (four vertices, eight outline indices) centred on the
\* centre of cell (selectedTankX_, selectedTankY_).
HighlightIffSelected ==
    /\ highlightModels_ # <<>> <=> hasTankSelected_
    /\ highlightModels_ # <<>> =>
          LET e == GridExtent(GridSize(mapData_))
          IN  /\ Len(highlightModels_) = 1
              /\ highlightModels_[1].kind = "line"
              /\ Len(highlightModels_[1].quads) = 1
              /\ highlightModels_[1].quads[1].x = CellCenterX(selectedTankX_, e)
              /\ highlightModels_[1].quads[1].y = CellCenterY(selectedTankY_, e)
              /\ Len(QuadVertices(highlightModels_[1].quads[1])) = 4
              /\ Len(QuadIndices(highlightModels_[1].kind, 0)) = 8

\* a Tank cell away from the grid's first cell is selected after a pan, and
\* its highlight is in place
HighlightIffSelected_witness ==
    /\ phase = "running"
    /\ lastEvent.type = "down"
    /\ hasTankSelected_
    /\ selectedTankX_ + selectedTankY_ > 0
    /\ scrollY_ # 0
    /\ highlightModels_ # <<>>
    /\ highlightModels_[1].quads[1].x =
           CellCenterX(selectedTankX_, GridExtent(GridSize(mapData_)))

-----------------------------------------------------------------------------
\* C31: a down event whose hit test lands on a Tank cell passes exactly one
\* payload to postJSON, holding that cell's grid x and grid y and the value
\* "XH", also when that cell was selected already; a down event that lands
\* on no Tank, and every other event, posts nothing.
OneNotificationPerTankHit ==
    [][/\ Handles("down") =>
              lastEvent'.posted =
                  IF mapDataLoaded_ /\ HitsTankAt(AddedPointerPos')
                  THEN << [x |-> GridXAt(AddedPointerPos'),
                           y |-> GridYAt(AddedPointerPos'), value |-> "XH"] >>
                  ELSE <<>>
       /\ \A type \in {"pointer_down", "move", "pointer_up", "up", "cancel"} :
              Handles(type) => lastEvent'.posted = <<>>]_vars

\* on the 2x2 grid, whose one Tank is cell (0,0), a tap on the Tank whose
\* request failed was followed by a second down on the Tank, which has
\* posted the cell once more
OneNotificationPerTankHit_witness ==
    /\ lastEvent.type = "down"
    /\ lastEvent.afterFailed
    /\ mapData_.width = 2
    /\ hasTankSelected_
    /\ selectedTankX_ = 0
    /\ selectedTankY_ = 0
    /\ lastEvent.posted = << [x |-> 0, y |-> 0, value |-> "XH"] >>

-----------------------------------------------------------------------------
(* The renderer's lifetime: construction, frames and taps, then the         *)
(* destructor.                                                              *)

\* the objects the members' destructors hand to glDeleteProgram: the texture
\* shader deletes its program; nothing deletes the tank texture
DeletedByMembers == {"textureShader_"}

\* ~Renderer: the body tears the EGL display, context and surface down and
\* issues no GL delete; the members are destroyed after the body
DestroyRenderer ==
    /\ phase = "running"
    /\ phase' = "destroyed"
    /\ glObjects' = glObjects \ DeletedByMembers
    /\ UNCHANGED <<viewVars, batchVars, mapData_, mapDataLoaded_,
                   tankTextureLoaded_, scrollVars, selectionVars,
                   lastTouchX_, lastTouchY_, isScrolling_, zoomLevel_,
                   touch1_, touch2_, isPinching_, lastPinchDistance_,
                   pointers, owner1, owner2, nEvents, lastEvent, drawn>>

NextLife ==
    \/ InitRenderer
    \/ Render
    \/ ActionDown
    \/ ActionUp
    \/ DestroyRenderer

SpecLife == Init /\ [][NextLife]_vars

NeverPinchingAndScrolling ==
    ~(isPinching_ /\ isScrolling_)

\* a pointer-down listing two pointers has started a pinch
NeverPinchingAndScrolling_witness ==
    /\ lastEvent.type = "pointer_down"
    /\ lastEvent.pointerCount >= 2
    /\ isPinching_
    /\ ~isScrolling_
    /\ nEvents >= 2

\* C34: touch2_ is active exactly while pinching, and touch1_ exactly while
\* pinching or scrolling
SlotsMatchGesture ==
    /\ touch2_.active <=> isPinching_
    /\ touch1_.active <=> (isPinching_ \/ isScrolling_)

\* a pointer has left a pinch and the remaining one pans
SlotsMatchGesture_witness ==
    /\ lastEvent.type = "pointer_up"
    /\ touch1_.active
    /\ ~touch2_.active
    /\ isScrolling_
    /\ ~isPinching_

-----------------------------------------------------------------------------
(* handleInput under gestures of up to MaxFingers pointers.                 *)

MaxFingers == 3

\* the Renderer of InitInput once it has handled the down of a first pointer;
\* nEvents counts the events that follow
InitPressed ==
    LET r == downloadMapData(TRUE, LoadedGrid, TRUE, TRUE)
    IN  /\ phase = "running"
        /\ width_ = -1
        /\ height_ = -1
        /\ shaderNeedsNewProjectionMatrix_ = TRUE
        /\ projectionMatrix_ = [zoom |-> 0, width |-> 0, height |-> 0]
        /\ models_ = r.batches.models
        /\ triangleModels_ = r.batches.triangleModels
        /\ texturedModels_ = r.batches.texturedModels
        /\ mapData_ = r.mapData
        /\ mapDataLoaded_ = r.mapDataLoaded
        /\ tankTextureLoaded_ = r.tankTextureLoaded
        /\ glObjects = GlObjectsAfterInit(r.tankTextureLoaded)
        /\ scrollX_ = 0
        /\ scrollY_ = 0
        /\ zoomLevel_ = defaultZoom
        /\ touch2_ = Touch(0, 0, FALSE)
        /\ isPinching_ = FALSE
        /\ isScrolling_ = TRUE
        /\ lastPinchDistance_ = 0
        /\ owner1 = 1
        /\ owner2 = 0
        /\ nEvents = 0
        /\ drawn = <<>>
        /\ \E p \in ScreenPoints, delivered \in BOOLEAN :
             LET w   == convertScreenToWorld(p)
                 hit == HitsTankAt(p)
             IN  /\ (~hit => ~delivered)
                 /\ pointers = << Pointer(1, p) >>
                 /\ touch1_ = Touch(w[1], w[2], TRUE)
                 /\ lastTouchX_ = w[1]
                 /\ lastTouchY_ = w[2]
                 /\ hasTankSelected_ = hit
                 /\ selectedTankX_ = (IF hit THEN GridXAt(p) ELSE -1)
                 /\ selectedTankY_ = (IF hit THEN GridYAt(p) ELSE -1)
                 /\ highlightModels_ =
                        (IF hit THEN HighlightFor(mapData_, GridXAt(p), GridYAt(p))
                                ELSE <<>>)
                 /\ lastEvent =
                        [type |-> "down", pointerIndex |-> 0, pointerCount |-> 1,
                         viewport |-> <<width_, height_>>, still |-> FALSE,
                         notified |-> IF ~hit THEN "none"
                                      ELSE IF delivered THEN "ok" ELSE "failed",
                         afterFailed |-> FALSE, pinch |-> "none",
                         posted |-> IF ~hit THEN <<>>
                                    ELSE << JsonPayload(GridXAt(p), GridYAt(p)) >>]

\* a further pointer touches a surface that tracks up to MaxFingers pointers
FurtherPointerDown == PointerDownUpTo(1, MaxFingers)

NextFingers ==
    \/ ActionDown
    \/ FurtherPointerDown
    \/ ActionPointerUp
    \/ ActionUp

SpecFingers == InitPressed /\ [][NextFingers]_vars

\* neither pinching nor scrolling
Idle == ~isPinching_ /\ ~isScrolling_

\* C35: the tracker is Idle only while no pointer is on the surface
IdleOnlyWithoutPointers ==
    Idle => pointers = NoPointers

\* C36: whenever a selection exists, the selected coordinates lie inside the
\* current grid and the cell they name is a Tank
SelectionNamesTank ==
    hasTankSelected_ =>
        /\ selectedTankX_ \in 0..(mapData_.width - 1)
        /\ selectedTankY_ \in 0..(mapData_.height - 1)
        /\ CellAt(mapData_, selectedTankX_, selectedTankY_) \in {"x", "X"}

\* a selection that has outlived the tap that made it: the view has been
\* panned since
SelectionNamesTank_witness ==
    /\ hasTankSelected_
    /\ lastEvent.type = "move"
    /\ (scrollX_ # 0 \/ scrollY_ # 0)
    /\ mapData_ # FallbackMapData

\* C37: the selection (selectedTankX_, selectedTankY_, hasTankSelected_) and
\* the highlight batch change only in a step that handles the down of a first
\* pointer; every other step (pointer-down, move, pointer-up, up, cancel and
\* key events, and frames) leaves all four as they were
SelectionChangesOnlyOnDown ==
    [][Handles("down") \/ selectionVars' = selectionVars]_vars

\* a tap on a Tank cell has ended and the cell is still selected and
\* highlighted
SelectionChangesOnlyOnDown_witness ==
    /\ lastEvent.type \in {"up", "cancel"}
    /\ hasTankSelected_
    /\ highlightModels_ # <<>>
    /\ pointers = NoPointers

\* C38: a hit test at a cell selects that cell exactly when createColoredGrid
\* has put the cell's quad in the textured batch
SelectableIffTextured ==
    lastEvent.type = "hit" =>
        LET e == GridExtent(GridSize(mapData_))
        IN  (/\ hasTankSelected_
             /\ selectedTankX_ = lastEvent.x
             /\ selectedTankY_ = lastEvent.y)
            <=> HasQuadAt(texturedModels_, CellCenterX(lastEvent.x, e),
                          CellCenterY(lastEvent.y, e))

\* a cell of the textured batch other than the first has been hit and selected
SelectableIffTextured_witness ==
    /\ lastEvent.type = "hit"
    /\ lastEvent.x > 0
    /\ lastEvent.y > 0
    /\ hasTankSelected_
    /\ Len(QuadsOf(texturedModels_)) = mapData_.width * mapData_.height
    /\ QuadsOf(models_) = <<>>

-----------------------------------------------------------------------------
\* the renderer runs on the grid of createFallbackMapData
FallbackInUse == phase = "running" /\ mapData_ = FallbackMapData

\* the coordinates of the Tank cells of a map
TankCells(m) ==
    { c \in (0..(m.width - 1)) \X (0..(m.height - 1)) : IsTank(CellAt(m, c[1], c[2])) }

\* C39: the tank texture is loaded only with a fetched grid; while the
\* fallback grid is in use the texture is not loaded, the latest frame
\* issued no textured pass, no Tank cell has a quad in the line or the
\* triangle batch, and a hit test at the centre of a Tank cell still hits
FallbackNeverTextured ==
    /\ tankTextureLoaded_ => mapData_ \in FetchedGrids
    /\ FallbackInUse =>
          /\ ~tankTextureLoaded_
          /\ ~Issued(drawn, "textured")
          /\ \A c \in TankCells(mapData_) :
                LET e  == GridExtent(GridSize(mapData_))
                    cx == CellCenterX(c[1], e)
                    cy == CellCenterY(c[2], e)
                IN  /\ ~HasQuadAt(models_, cx, cy)
                    /\ ~HasQuadAt(triangleModels_, cx, cy)
                    /\ checkTankSelection(cx + scrollX_, cy + scrollY_).hit

\* under the fallback grid a Tank has been selected by a tap and a frame
\* has drawn its highlight, with the Tank batch filled and not drawn
FallbackNeverTextured_witness ==
    /\ FallbackInUse
    /\ hasTankSelected_
    /\ texturedModels_ # <<>>
    /\ Issued(drawn, "highlight")
    /\ Issued(drawn, "line")
    /\ ~Issued(drawn, "textured")

-----------------------------------------------------------------------------
(* The cell loop of createColoredGrid on one batch, quad by quad: the      *)
(* batch's vertex count and the indices pushed for the latest quad are     *)
(* kept in lastEvent.                                                      *)

\* the longest batch built: a few quads past the one whose base index wraps
MaxBatchQuads == 16400

InitBatch ==
    /\ phase = "indexing"
    /\ width_ = -1
    /\ height_ = -1
    /\ shaderNeedsNewProjectionMatrix_ = TRUE
    /\ projectionMatrix_ = [zoom |-> 0, width |-> 0, height |-> 0]
    /\ models_ = <<>>
    /\ triangleModels_ = <<>>
    /\ texturedModels_ = <<>>
    /\ highlightModels_ = <<>>
    /\ mapData_ = EmptyMapData
    /\ mapDataLoaded_ = TRUE
    /\ tankTextureLoaded_ = FALSE
    /\ glObjects = GlObjectsAfterInit(FALSE)
    /\ scrollX_ = 0
    /\ scrollY_ = 0
    /\ lastTouchX_ = 0
    /\ lastTouchY_ = 0
    /\ isScrolling_ = FALSE
    /\ zoomLevel_ = defaultZoom
    /\ touch1_ = Touch(0, 0, FALSE)
    /\ touch2_ = Touch(0, 0, FALSE)
    /\ isPinching_ = FALSE
    /\ lastPinchDistance_ = 0
    /\ selectedTankX_ = -1
    /\ selectedTankY_ = -1
    /\ hasTankSelected_ = FALSE
    /\ pointers = NoPointers
    /\ owner1 = 0
    /\ owner2 = 0
    /\ nEvents = 0
    /\ drawn = <<>>
    /\ \E kind \in {"line", "triangle", "textured"} :
          lastEvent = [type |-> "batch", kind |-> kind, vertices |-> 0,
                       indices |-> <<>>]

\* one cell of the batch's kind: baseIndex is the vertex count, four
\* vertices are emplaced and the quad's indices pushed
AppendQuad ==
    /\ phase = "indexing"
    /\ lastEvent.vertices < 4 * MaxBatchQuads
    /\ lastEvent' = [type |-> "quad", kind |-> lastEvent.kind,
                     vertices |-> lastEvent.vertices + 4,
                     indices |-> QuadIndices(lastEvent.kind,
                                             lastEvent.vertices \div 4)]
    /\ UNCHANGED <<phase, drawn, viewVars, batchVars, mapVars, scrollVars,
                   selectionVars, lastTouchX_, lastTouchY_, isScrolling_,
                   zoomLevel_, touch1_, touch2_, isPinching_, lastPinchDistance_,
                   pointers, owner1, owner2, nEvents>>

NextBatch == AppendQuad

SpecBatch == InitBatch /\ [][NextBatch]_vars

\* C40: every index pushed for a quad is smaller than the number of
\* vertices its batch holds, also once the count has passed 65536 and the
\* 16-bit base index has wrapped
IndicesBelowVertexCount ==
    lastEvent.type = "quad" =>
        \A k \in 1..Len(lastEvent.indices) :
            /\ lastEvent.indices[k] >= 0
            /\ lastEvent.indices[k] < lastEvent.vertices

\* the batch holds more than 65536 vertices and the latest quad's indices
\* start again at 0
IndicesBelowVertexCount_witness ==
    /\ lastEvent.type = "quad"
    /\ lastEvent.vertices > IndexModulus
    /\ lastEvent.indices[1] = 0

=============================================================================
